---- MODULE Spec2Model ----
(***************************************************************************)
(* Dual-call inference orchestration of Rasmus0505/AI-Group1.              *)
(*                                                                         *)
(* Eight parts of the repository are modelled, each with its own           *)
(* specification over the same variables:                                  *)
(*   RouteSpec  - the dual-API backend routes (routes.ts) with             *)
(*                generateNarrative (narrativeApi.ts) and parseNarrative   *)
(*                (parserApi.ts);                                          *)
(*   CallSpec   - AIService.callAI, the retry executor (aiService.ts);     *)
(*   InferSpec  - AIService.performInference with the history store and    *)
(*                the Lorebook (aiService.ts);                             *)
(*   StoreSpec  - the history store of AIService by itself, saves and      *)
(*                retrievals in any order;                                 *)
(*   LoreSpec   - the Lorebook of AIService by itself;                     *)
(*   CompressSpec - compressHistory of AIService by itself, on histories   *)
(*                whose rounds differ in length, and on its own output;    *)
(*   BodySpec   - buildRequestBody of AIService by itself, with and        *)
(*                without a body template;                                 *)
(*   HookSpec   - the dual-API client hook useDualApi (useDualApi.ts), its *)
(*                requests overlapping freely.                             *)
(* Text is a sequence of tokens; strings of the source that are only       *)
(* compared for equality are TLA+ strings.                                 *)
(***************************************************************************)
EXTENDS Integers, Sequences, FiniteSets, TLC

VARIABLES
  \* ---- routes.ts: one request handler at a time ----
  route,            \* which endpoint is being served
  rpc,              \* position of the handler
  req,              \* the request body
  narrativeResult,  \* routes.ts:200 const narrativeResult
  parseResult,      \* routes.ts:217 const parseResult
  resp,             \* what res.json(...) sent
  inflight,         \* external calls (axios.post) not yet answered
  calls,            \* external calls issued by the current request, in order
  answered,         \* what the axios.post answered last came back with
  \* ---- aiService.ts: AIService.callAI ----
  cpc,              \* position of callAI
  ccfg,             \* its config argument
  retries,          \* its retries argument (maxAttempts)
  attempt,          \* the loop variable
  lastError,        \* aiService.ts:1062 let lastError
  delays,           \* the delays slept so far, in order
  requests,         \* axios requests issued by this call
  response,         \* aiService.ts:1068 the body of the answer to the last attempt
  cresult,          \* what callAI returned
  cthrown,          \* what callAI threw
  \* ---- aiService.ts: AIService.performInference and its stores ----
  ipc,              \* position of performInference
  ireq,             \* its request and historyConfig arguments
  lorebookCache,    \* aiService.ts:149, session id -> entry list
  history,          \* the aIConversationHistory table, in insertion order
  historyMessages,  \* aiService.ts:1346 const historyMessages
  prompt,           \* aiService.ts:1353 let prompt
  iresult,          \* what performInference returned
  ithrown,          \* what performInference threw
  turnStartLore,    \* lorebookCache as the running turn found it
  turnStartHistory, \* history as the running turn found it
  turns,            \* operations of the engine started so far
  \* ---- useDualApi.ts: the hook ----
  state,            \* useDualApi.ts:101 the hook's state
  narrativeFetches, \* fetches of /api/dual/narrative not yet answered
  parseFetches,     \* fetches of /api/dual/parse not yet answered
  hookCalls,        \* calls of the hook's functions so far
  shownRound,       \* currentRound of the request that state.narrative answers
                    \* (kept by the hook's caller, not by the hook)
  \* ---- aiService.ts: the Lorebook called directly ----
  loreOp,           \* the Lorebook operation last called, its session and the
                    \* maxTokens of a lookup
  \* ---- aiService.ts: compressHistory called directly ----
  compressIn,       \* the messages last handed to compressHistory
  compressMax,      \* the maxTokens last handed to compressHistory
  compressOut,      \* the messages it returned
  compressPass,     \* how many times it ran on this history (0: not yet)
  \* ---- aiService.ts: buildRequestBody called directly ----
  requestBody       \* the arguments of the last call and the body it returned

routeVars == <<route, rpc, req, narrativeResult, parseResult, resp, inflight, calls,
              answered>>
callVars == <<cpc, ccfg, retries, attempt, lastError, delays, requests, response,
             cresult, cthrown>>

inferVars == <<ipc, ireq, lorebookCache, history, historyMessages, prompt, iresult,
               ithrown, turnStartLore, turnStartHistory, turns>>

hookVars == <<state, narrativeFetches, parseFetches, hookCalls, shownRound>>

compressVars == <<compressIn, compressMax, compressOut, compressPass>>

vars == <<routeVars, callVars, inferVars, hookVars, loreOp, compressVars, requestBody>>

\* what an action of one part leaves alone
NotRoute == <<callVars, inferVars, hookVars, loreOp, compressVars, requestBody>>
NotCall == <<routeVars, inferVars, hookVars, loreOp, compressVars, requestBody>>
NotInfer == <<routeVars, hookVars, loreOp, compressVars, requestBody>>
NotHook == <<routeVars, callVars, inferVars, loreOp, compressVars, requestBody>>
NotLore == <<routeVars, hookVars, compressVars, requestBody>>
NotBody == <<routeVars, callVars, inferVars, hookVars, loreOp, compressVars>>
NotCompress == <<routeVars, callVars, inferVars, hookVars, loreOp, requestBody>>

(***************************************************************************)
(* Values                                                                  *)
(***************************************************************************)
\* JavaScript undefined / null for a text value and for a scalar
UndefText == <<"undefined">>
Undef == "undefined"
Null == "null"

\* An AI configuration as the request body carries it: Absent is a missing
\* object, "" a missing field.
Absent == [endpoint |-> "", apiKey |-> "", present |-> FALSE]
cfgA == [endpoint |-> "epA", apiKey |-> "keyA", present |-> TRUE]
cfgB == [endpoint |-> "epB", apiKey |-> "keyB", present |-> TRUE]
cfgNoEndpoint == [endpoint |-> "", apiKey |-> "keyA", present |-> TRUE]
cfgNoKey == [endpoint |-> "epB", apiKey |-> "", present |-> TRUE]
ConfigInputs == {Absent, cfgA, cfgB, cfgNoEndpoint, cfgNoKey}

\* routes.ts:185 `!config?.endpoint || !config?.apiKey`
ConfigMissing(c) == (~c.present) \/ c.endpoint = "" \/ c.apiKey = ""

\* Narrative text: tokens "sp" (white space) and words.
NarrativeContents ==
  { <<>>, <<"sp">>, <<"a">>, <<"sp", "a">>, <<"a", "sp", "b">>, <<"b", "sp">> }

RECURSIVE TrimLeft(_)
TrimLeft(s) == IF s # <<>> /\ Head(s) = "sp" THEN TrimLeft(Tail(s)) ELSE s

RECURSIVE TrimRight(_)
TrimRight(s) ==
  IF s # <<>> /\ s[Len(s)] = "sp" THEN TrimRight(SubSeq(s, 1, Len(s) - 1)) ELSE s

\* String.prototype.trim
Trim(s) == TrimRight(TrimLeft(s))

\* Failures of axios.post as narrativeApi.ts:126-144 / parserApi.ts:181-199
\* tell them apart.
AxiosErrors == {"http401", "http429", "ETIMEDOUT", "message", "nomessage"}

\* Message of a failed axios.post: narrativeApi.ts:129-138, parserApi.ts:184-193
\* (dflt is the role's default message).
ErrorMessage(e, dflt) ==
  CASE e = "http401" -> "API_KEY_INVALID"
    [] e = "http429" -> "RATE_LIMITED"
    [] e = "ETIMEDOUT" -> "REQUEST_TIMEOUT"
    [] e = "message" -> "error.message"
    [] OTHER -> dflt

\* What axios.post can do to the caller: a response whose
\* choices[0].message.content is `content` (<<>> when empty or missing), or
\* a thrown error.
NarrativeOutcomes ==
  [ok : {TRUE}, content : NarrativeContents, err : {"none"}]
    \cup [ok : {FALSE}, content : {<<>>}, err : AxiosErrors]

\* narrativeApi.ts:44-145 generateNarrative, from the outcome of its axios.post
generateNarrative(outcome) ==
  IF ~outcome.ok
    THEN [success |-> FALSE, narrative |-> UndefText,
          error |-> ErrorMessage(outcome.err, "NARRATIVE_FAILED")]
    ELSE IF outcome.content = <<>>
      THEN [success |-> FALSE, narrative |-> UndefText, error |-> "EMPTY_CONTENT"]
      ELSE [success |-> TRUE, narrative |-> Trim(outcome.content), error |-> Undef]

(***************************************************************************)
(* parserApi.ts: the parser's output text is a sequence of tokens          *)
(*   "T"   text without braces or fences                                   *)
(*   "FJ"  the fence ```json          "F"  the fence ```                   *)
(*   "P1", "P2"  JSON objects with a perEntityPanel field                  *)
(*   "O"   a JSON object without perEntityPanel                            *)
(*   "B"   brace-delimited text that is not JSON                           *)
(***************************************************************************)
MaxContentLen == 3
ParserTokens == {"T", "FJ", "F", "P1", "P2", "O", "B"}
ParserContents == UNION { [1..n -> ParserTokens] : n \in 0..MaxContentLen }

IsFence(t) == t \in {"F", "FJ"}
HasBraces(t) == t \in {"P1", "P2", "O", "B"}
NoMatch == <<"nomatch">>

\* /```json\s*([\s\S]*?)```/i : from the first ```json to the next fence
JsonFenceGroup(s) ==
  LET opens == { i \in 1..Len(s) : s[i] = "FJ" /\ \E j \in (i+1)..Len(s) : IsFence(s[j]) }
  IN IF opens = {} THEN NoMatch
     ELSE LET i == CHOOSE k \in opens : \A m \in opens : k <= m
              j == CHOOSE k \in (i+1)..Len(s) :
                     IsFence(s[k]) /\ \A m \in (i+1)..(k-1) : ~IsFence(s[m])
          IN SubSeq(s, i + 1, j - 1)

\* /```\s*([\s\S]*?)```/ : from the first fence to the next one; after a
\* ```json opener the group starts with the word json
AnyFenceGroup(s) ==
  LET opens == { i \in 1..Len(s) : IsFence(s[i]) /\ \E j \in (i+1)..Len(s) : IsFence(s[j]) }
  IN IF opens = {} THEN NoMatch
     ELSE LET i == CHOOSE k \in opens : \A m \in opens : k <= m
              j == CHOOSE k \in (i+1)..Len(s) :
                     IsFence(s[k]) /\ \A m \in (i+1)..(k-1) : ~IsFence(s[m])
          IN (IF s[i] = "FJ" THEN <<"T">> ELSE <<>>) \o SubSeq(s, i + 1, j - 1)

\* /(\{[\s\S]*\})/ : from the first brace to the last one
BraceGroup(s) ==
  LET bs == { i \in 1..Len(s) : HasBraces(s[i]) }
  IN IF bs = {} THEN NoMatch
     ELSE SubSeq(s, CHOOSE k \in bs : \A m \in bs : k <= m,
                    CHOOSE k \in bs : \A m \in bs : k >= m)

\* JSON.parse(match[1].trim()): the object the group is, or "fail"
JsonParse(g) ==
  IF g # NoMatch /\ Len(g) = 1 /\ g[1] \in {"P1", "P2", "O"} THEN g[1] ELSE "fail"

\* parserApi.ts:205-231 extractJsonFromResponse: the first pattern whose group
\* parses to an object with perEntityPanel
extractJsonFromResponse(content) ==
  LET r1 == JsonParse(JsonFenceGroup(content))
      r2 == JsonParse(AnyFenceGroup(content))
      r3 == JsonParse(BraceGroup(content))
  IN CASE r1 \in {"P1", "P2"} -> r1
       [] r2 \in {"P1", "P2"} -> r2
       [] r3 \in {"P1", "P2"} -> r3
       [] OTHER -> Null

ParserOutcomes ==
  [ok : {TRUE}, content : ParserContents, err : {"none"}]
    \cup [ok : {FALSE}, content : {<<>>}, err : AxiosErrors]

\* a parser call that hands the raw text on only when a block was extracted
parseNarrative_RawOnSuccess(outcome) ==
  IF ~outcome.ok
    THEN [success |-> FALSE, rawText |-> UndefText, panelData |-> Undef,
          parseSuccess |-> Undef, error |-> ErrorMessage(outcome.err, "PARSE_FAILED")]
    ELSE IF outcome.content = <<>>
      THEN [success |-> FALSE, rawText |-> UndefText, panelData |-> Undef,
            parseSuccess |-> Undef, error |-> "EMPTY_CONTENT"]
      ELSE LET panelData == extractJsonFromResponse(outcome.content)
           IN [success |-> TRUE,
               rawText |-> IF panelData = Null THEN UndefText ELSE outcome.content,
               panelData |-> IF panelData = Null THEN Undef ELSE panelData,
               parseSuccess |-> IF panelData = Null THEN "false" ELSE "true",
               error |-> Undef]

\* parserApi.ts:107-200 parseNarrative, from the outcome of its axios.post
parseNarrative(outcome) ==
  IF ~outcome.ok
    THEN [success |-> FALSE, rawText |-> UndefText, panelData |-> Undef,
          parseSuccess |-> Undef, error |-> ErrorMessage(outcome.err, "PARSE_FAILED")]
    ELSE IF outcome.content = <<>>
      THEN [success |-> FALSE, rawText |-> UndefText, panelData |-> Undef,
            parseSuccess |-> Undef, error |-> "EMPTY_CONTENT"]
      ELSE LET panelData == extractJsonFromResponse(outcome.content)
           IN [success |-> TRUE, rawText |-> outcome.content,
               panelData |-> IF panelData = Null THEN Undef ELSE panelData,
               parseSuccess |-> IF panelData = Null THEN "false" ELSE "true",
               error |-> Undef]

(***************************************************************************)
(* routes.ts                                                               *)
(***************************************************************************)
NoRoster == <<"undefined">>
RosterInputs == {NoRoster, <<"A">>}
\* currentRound of the request body; 0 stands for a missing or zero value
RoundInputs == {0, 2}
\* the stored narrative handed to POST /parse
StoredNarratives == {UndefText, <<>>, <<"a">>, <<"sp", "a">>, <<"a", "sp", "b">>}

NoResult == [success |-> FALSE, narrative |-> UndefText, error |-> "none"]
NoParse == [success |-> FALSE, rawText |-> UndefText, panelData |-> Undef,
            parseSuccess |-> Undef, error |-> "none"]
NoResp == [status |-> 0]
NoAnswer == [ok |-> FALSE, content |-> <<>>, err |-> "none"]
NoReq == [narrativeConfig |-> Absent, parserConfig |-> Absent, config |-> Absent,
          currentRound |-> 0, entities |-> NoRoster, narrative |-> UndefText]

\* `currentRound || 1`, `entities || []`
RoundOrOne(r) == IF r = 0 THEN 1 ELSE r
EntitiesOrEmpty(e) == IF e = NoRoster THEN <<>> ELSE e

\* the axios.post generateNarrative issues (narrativeApi.ts:90-109)
NarrativeCall(config, round) ==
  [kind |-> "narrative", config |-> config, narrative |-> UndefText,
   entities |-> <<>>, round |-> RoundOrOne(round), timeout |-> 120000]

\* the axios.post parseNarrative issues (parserApi.ts:123-158): the prompt
\* carries the round, the roster and the narrative text
ParserCall(config, narrative, entities, round) ==
  [kind |-> "parser", config |-> config, narrative |-> narrative,
   entities |-> entities, round |-> RoundOrOne(round), timeout |-> 60000]

BadRequest(msg) == [status |-> 400, success |-> FALSE, error |-> msg]

\* a full round that lets the parser's outcome decide the whole answer
FullRoundBody_ParserGates(nr, pr) ==
  [status |-> 200, success |-> pr.success,
   narrative |-> IF pr.success THEN nr.narrative ELSE UndefText,
   parserRawText |-> pr.rawText,
   panelData |-> IF pr.panelData = Undef THEN Null ELSE pr.panelData,
   parseSuccess |-> pr.parseSuccess,
   parseError |-> IF pr.parseSuccess = "true" THEN Null ELSE "CANNOT_PARSE_JSON"]

\* routes.ts:224-231, the body of a completed full round
FullRoundBody(nr, pr) ==
  [status |-> 200, success |-> TRUE, narrative |-> nr.narrative,
   parserRawText |-> pr.rawText,
   panelData |-> IF pr.panelData = Undef THEN Null ELSE pr.panelData,
   parseSuccess |-> pr.parseSuccess,
   parseError |-> IF pr.parseSuccess = "true" THEN Null ELSE "CANNOT_PARSE_JSON"]

\* routes.ts:209-213, the body of a full round whose narrative failed
NarrativeFailedBody(nr) ==
  [status |-> 200, success |-> FALSE, step |-> "narrative",
   error |-> IF nr.error = Undef THEN "NARRATIVE_FAILED" ELSE nr.error]

\* a full round that fires both calls at once
FullRoundRequest_Parallel(nc, pc, round, ents) ==
  /\ UNCHANGED NotRoute
  /\ answered' = NoAnswer
  /\ rpc = "idle"
  /\ route' = "full-round"
  /\ req' = [NoReq EXCEPT !.narrativeConfig = nc, !.parserConfig = pc,
                          !.currentRound = round, !.entities = ents]
  /\ narrativeResult' = NoResult
  /\ parseResult' = NoParse
  /\ resp' = NoResp
  /\ rpc' = "calling_narrative"
  /\ inflight' = {NarrativeCall(nc, round),
                  ParserCall(pc, UndefText, EntitiesOrEmpty(ents), round)}
  /\ calls' = <<NarrativeCall(nc, round),
                ParserCall(pc, UndefText, EntitiesOrEmpty(ents), round)>>

\* routes.ts:172-206 POST /full-round up to its first await
FullRoundRequest(nc, pc, round, ents) ==
  /\ UNCHANGED NotRoute
  /\ answered' = NoAnswer
  /\ rpc = "idle"
  /\ route' = "full-round"
  /\ req' = [NoReq EXCEPT !.narrativeConfig = nc, !.parserConfig = pc,
                          !.currentRound = round, !.entities = ents]
  /\ narrativeResult' = NoResult
  /\ parseResult' = NoParse
  /\ IF ConfigMissing(nc)
       THEN /\ resp' = BadRequest("MISSING_NARRATIVE_CONFIG")
            /\ rpc' = "done"
            /\ inflight' = {}
            /\ calls' = <<>>
       ELSE IF ConfigMissing(pc)
         THEN /\ resp' = BadRequest("MISSING_PARSER_CONFIG")
              /\ rpc' = "done"
              /\ inflight' = {}
              /\ calls' = <<>>
         ELSE /\ resp' = NoResp
              /\ rpc' = "calling_narrative"
              /\ inflight' = {NarrativeCall(nc, round)}
              /\ calls' = <<NarrativeCall(nc, round)>>

\* routes.ts:200-222: generateNarrative returns; the handler answers the
\* failure or goes on to parseNarrative up to its axios.post
FullRoundNarrativeReturns(outcome) ==
  /\ UNCHANGED NotRoute
  /\ answered' = outcome
  /\ route = "full-round"
  /\ rpc = "calling_narrative"
  /\ LET nr == generateNarrative(outcome)
     IN /\ narrativeResult' = nr
        /\ IF (~nr.success) \/ nr.narrative = <<>>
             THEN /\ resp' = NarrativeFailedBody(nr)
                  /\ rpc' = "done"
                  /\ inflight' = {}
                  /\ calls' = calls
             ELSE LET c == ParserCall(req.parserConfig, nr.narrative,
                                      EntitiesOrEmpty(req.entities), req.currentRound)
                  IN /\ resp' = resp
                     /\ rpc' = "calling_parser"
                     /\ inflight' = {c}
                     /\ calls' = Append(calls, c)
  /\ UNCHANGED <<route, req, parseResult>>

\* routes.ts:217-231: parseNarrative returns and the round is answered
FullRoundParserReturns(outcome) ==
  /\ UNCHANGED NotRoute
  /\ answered' = outcome
  /\ route = "full-round"
  /\ rpc = "calling_parser"
  /\ parseResult' = parseNarrative(outcome)
  /\ resp' = FullRoundBody(narrativeResult, parseNarrative(outcome))
  /\ rpc' = "done"
  /\ inflight' = {}
  /\ UNCHANGED <<route, req, narrativeResult, calls>>

\* a reparse that asks the narrative service for the text again
ParseRequest_Regenerates(config, narrative, ents, round) ==
  /\ UNCHANGED NotRoute
  /\ answered' = NoAnswer
  /\ rpc = "idle"
  /\ route' = "parse"
  /\ req' = [NoReq EXCEPT !.config = config, !.narrative = narrative,
                          !.currentRound = round, !.entities = ents]
  /\ narrativeResult' = NoResult
  /\ parseResult' = NoParse
  /\ resp' = NoResp
  /\ rpc' = "calling_parser"
  /\ inflight' = {ParserCall(config, narrative, ents, round)}
  /\ calls' = <<NarrativeCall(config, round), ParserCall(config, narrative, ents, round)>>

\* routes.ts:120-148 POST /parse up to its await
ParseRequest(config, narrative, ents, round) ==
  /\ UNCHANGED NotRoute
  /\ answered' = NoAnswer
  /\ rpc = "idle"
  /\ route' = "parse"
  /\ req' = [NoReq EXCEPT !.config = config, !.narrative = narrative,
                          !.currentRound = round, !.entities = ents]
  /\ narrativeResult' = NoResult
  /\ parseResult' = NoParse
  /\ IF ConfigMissing(config)
       THEN /\ resp' = BadRequest("MISSING_CONFIG")
            /\ rpc' = "done"
            /\ inflight' = {}
            /\ calls' = <<>>
       ELSE IF narrative = UndefText \/ narrative = <<>>
         THEN /\ resp' = BadRequest("MISSING_NARRATIVE")
              /\ rpc' = "done"
              /\ inflight' = {}
              /\ calls' = <<>>
         ELSE LET c == ParserCall(config, narrative, ents, round)
              IN /\ resp' = NoResp
                 /\ rpc' = "calling_parser"
                 /\ inflight' = {c}
                 /\ calls' = <<c>>

\* routes.ts:143-157: parseNarrative returns and POST /parse answers
ParseRouteReturns(outcome) ==
  /\ UNCHANGED NotRoute
  /\ answered' = outcome
  /\ route = "parse"
  /\ rpc = "calling_parser"
  /\ LET pr == parseNarrative(outcome)
     IN /\ parseResult' = pr
        /\ resp' = [status |-> 200, success |-> pr.success, rawText |-> pr.rawText,
                    panelData |-> pr.panelData, parseSuccess |-> pr.parseSuccess,
                    error |-> pr.error]
  /\ rpc' = "done"
  /\ inflight' = {}
  /\ UNCHANGED <<route, req, narrativeResult, calls>>

\* routes.ts:80-103 POST /narrative up to its await
NarrativeRequest(config, round) ==
  /\ UNCHANGED NotRoute
  /\ answered' = NoAnswer
  /\ rpc = "idle"
  /\ route' = "narrative"
  /\ req' = [NoReq EXCEPT !.config = config, !.currentRound = round]
  /\ narrativeResult' = NoResult
  /\ parseResult' = NoParse
  /\ IF ConfigMissing(config)
       THEN /\ resp' = BadRequest("MISSING_CONFIG")
            /\ rpc' = "done"
            /\ inflight' = {}
            /\ calls' = <<>>
       ELSE /\ resp' = NoResp
            /\ rpc' = "calling_narrative"
            /\ inflight' = {NarrativeCall(config, round)}
            /\ calls' = <<NarrativeCall(config, round)>>

\* routes.ts:97-105: generateNarrative returns and POST /narrative answers
NarrativeRouteReturns(outcome) ==
  /\ UNCHANGED NotRoute
  /\ answered' = outcome
  /\ route = "narrative"
  /\ rpc = "calling_narrative"
  /\ LET nr == generateNarrative(outcome)
     IN /\ narrativeResult' = nr
        /\ resp' = [status |-> 200, success |-> nr.success,
                    narrative |-> nr.narrative, error |-> nr.error]
  /\ rpc' = "done"
  /\ inflight' = {}
  /\ UNCHANGED <<route, req, parseResult, calls>>

\* the handler has answered; the server takes the next request
RouteDone ==
  /\ UNCHANGED NotRoute
  /\ answered' = NoAnswer
  /\ rpc = "done"
  /\ rpc' = "idle"
  /\ route' = "none"
  /\ req' = NoReq
  /\ narrativeResult' = NoResult
  /\ parseResult' = NoParse
  /\ resp' = NoResp
  /\ inflight' = {}
  /\ calls' = <<>>

RouteInit ==
  /\ route = "none"
  /\ rpc = "idle"
  /\ req = NoReq
  /\ narrativeResult = NoResult
  /\ parseResult = NoParse
  /\ resp = NoResp
  /\ inflight = {}
  /\ calls = <<>>
  /\ answered = NoAnswer

RouteNext ==
  \/ /\ rpc = "idle"
     /\ \E nc \in ConfigInputs, pc \in ConfigInputs, r \in RoundInputs, e \in RosterInputs :
          FullRoundRequest(nc, pc, r, e)
  \/ /\ rpc = "calling_narrative"
     /\ \E o \in NarrativeOutcomes : FullRoundNarrativeReturns(o)
  \/ /\ rpc = "calling_parser"
     /\ \E o \in ParserOutcomes : FullRoundParserReturns(o)
  \/ /\ rpc = "idle"
     /\ \E c \in ConfigInputs, n \in StoredNarratives, e \in RosterInputs,
           r \in RoundInputs :
          ParseRequest(c, n, e, r)
  \/ /\ rpc = "calling_parser"
     /\ \E o \in ParserOutcomes : ParseRouteReturns(o)
  \/ /\ rpc = "idle"
     /\ \E c \in ConfigInputs, r \in RoundInputs : NarrativeRequest(c, r)
  \/ /\ rpc = "calling_narrative"
     /\ \E o \in NarrativeOutcomes : NarrativeRouteReturns(o)
  \/ RouteDone

(***************************************************************************)
(* aiService.ts: AIService.callAI, the retry executor                      *)
(***************************************************************************)
MaxRetries == 6
defaultRetries == 5
MaxDelay == 30000

\* An error thrown by axios: the HTTP status of error.response (0 when there
\* is no response), error.code, and what error.message contains.
HttpErrors == [status : {400, 401, 404, 429, 500}, code : {"ERR_HTTP"}, msg : {"plain"}]
NetworkErrors ==
  [status : {0},
   code : {"ECONNRESET", "EPIPE", "EPROTO", "ETIMEDOUT", "ECONNREFUSED", "ENOTFOUND",
           "ECONNABORTED"},
   msg : {"plain"}]
OtherErrors == [status : {0}, code : {"NONE"}, msg : {"plain", "socket", "TLS"}]
AIErrors == HttpErrors \cup NetworkErrors \cup OtherErrors
NoError == [status |-> 0, code |-> "null", msg |-> "null"]

\* aiService.ts:1098-1126, the message attached to a failed attempt
callAIErrorMessage(e) ==
  IF e.status # 0
    THEN CASE e.status = 401 -> "AUTH_INVALID"
           [] e.status = 404 -> "ENDPOINT_NOT_FOUND"
           [] e.status = 429 -> "RATE_LIMITED"
           [] e.status >= 500 -> "SERVER_ERROR"
           [] OTHER -> "REQUEST_FAILED"
    ELSE CASE e.code \in {"ECONNREFUSED", "ENOTFOUND"} -> "CANNOT_CONNECT"
           [] e.code = "ETIMEDOUT" -> "CONNECT_TIMEOUT"
           [] e.code = "ECONNRESET" -> "CONNECTION_RESET"
           [] e.code \in {"EPIPE", "EPROTO"} -> "TLS_ERROR"
           [] e.msg \in {"socket", "TLS"} -> "SOCKET_ERROR"
           [] OTHER -> "error.message"

\* aiService.ts:1138-1140
isNetworkError(e) ==
  \/ e.code \in {"ECONNRESET", "EPIPE", "EPROTO", "ETIMEDOUT", "ECONNREFUSED"}
  \/ e.msg = "socket"
  \/ e.msg = "TLS"

RECURSIVE Pow2(_)
Pow2(n) == IF n <= 0 THEN 1 ELSE 2 * Pow2(n - 1)

Min(a, b) == IF a <= b THEN a ELSE b

\* aiService.ts:1143 a flat delay, whatever the failure
baseDelay_Flat(e) == 1000

\* aiService.ts:1143
baseDelay(e) == IF isNetworkError(e) THEN 3000 ELSE 1000

\* aiService.ts:1144 the delay slept after failed attempt n
retryDelay(e, n) == Min(baseDelay(e) * Pow2(n - 1), MaxDelay)

\* The response body of a successful request: which of the shapes
\* parseResponse tells apart it has, and the text it carries.
ResponseShapes == {"string", "choices", "result", "bare", "content", "other"}
ResponseTexts ==
  { <<>>, <<"T">>, <<"FJ", "P1", "F">>, <<"T", "P2">>, <<"T", "O">>, <<"F", "B", "F">> }
Responses == [shape : ResponseShapes, text : ResponseTexts]
Providers == {"default", "custom"}

\* The events and achievements arrays a result carries, by its block: "P1"
\* has a negative event, a neutral one and an achievement; "P2" a neutral
\* long-running event; the others none.
ResultEvents(result) ==
  CASE result.block = "P1" ->
         << [keyword |-> "kw1", type |-> "negative", isLongTerm |-> FALSE],
            [keyword |-> "kw2", type |-> "neutral", isLongTerm |-> FALSE] >>
    [] result.block = "P2" ->
         << [keyword |-> "kw3", type |-> "neutral", isLongTerm |-> TRUE] >>
    [] OTHER -> <<>>

ResultAchievements(result) ==
  IF result.block = "P1"
    THEN << [id |-> "ach_1", title |-> "title1", entityId |-> "A"] >>
    ELSE <<>>

\* the keys of the object a structured block parses to; "O" is an object
\* without panels and without events
BlockKeys(block) ==
  CASE block = "P1" -> {"narrative", "perEntityPanel", "events", "achievements"}
    [] block = "P2" -> {"perEntityPanel", "events"}
    [] block = "O" -> {"note"}
    [] OTHER -> {}

\* the perEntityPanel array of a block
BlockPanels(block) ==
  CASE block = "P1" ->
         << [name |-> "nameA", cash |-> 100, broken |-> FALSE, bankruptReason |-> "",
             passiveIncome |-> 10, passiveExpense |-> 5],
            [name |-> "nameB", cash |-> 0, broken |-> TRUE, bankruptReason |-> "",
             passiveIncome |-> 0, passiveExpense |-> 5] >>
    [] block = "P2" ->
         << [name |-> "nameB", cash |-> 0, broken |-> TRUE, bankruptReason |-> "debt",
             passiveIncome |-> 0, passiveExpense |-> 0] >>
    [] OTHER -> <<>>

\* aiService.ts:1288-1307 mapEntityPanelsToOutcomes; `isArray` is whether
\* the block has a perEntityPanel array at all
mapEntityPanelsToOutcomes(panels, isArray) ==
  IF ~isArray THEN <<>>
  ELSE [i \in 1..Len(panels) |->
          [playerIndex |-> i - 1,
           outcome |->
             IF panels[i].broken
               THEN <<panels[i].name, "bankrupt",
                      IF panels[i].bankruptReason = "" THEN "cashflow"
                      ELSE panels[i].bankruptReason>>
               ELSE <<panels[i].name, "cash", ToString(panels[i].cash)>>,
           resources |-> [cash |-> panels[i].cash,
                          passiveIncome |-> panels[i].passiveIncome,
                          passiveExpense |-> panels[i].passiveExpense]]]

\* aiService.ts:1312-1322 mapTurnEvents; a field an event lacks is undefined
mapTurnEvents(events, isArray) ==
  IF ~isArray THEN <<>>
  ELSE [i \in 1..Len(events) |->
          [type |-> IF "type" \in DOMAIN events[i] /\ events[i].type # ""
                      THEN events[i].type ELSE "neutral",
           description |->
             IF "description" \in DOMAIN events[i] /\ events[i].description # ""
               THEN events[i].description
               ELSE IF "keyword" \in DOMAIN events[i] THEN events[i].keyword ELSE ""]]

\* an extractor that gives the raw text without the two arrays
parseNarrativeResponse_NoArrays(content) ==
  LET r1 == JsonParse(JsonFenceGroup(content))
      r2 == JsonParse(AnyFenceGroup(content))
      r3 == JsonParse(BraceGroup(content))
      block == CASE r1 # "fail" -> r1
                 [] r2 # "fail" -> r2
                 [] r3 # "fail" -> r3
                 [] OTHER -> Null
  IN [narrative |-> content, block |-> block, keys |-> {"narrative"},
      outcomes |-> <<>>, events |-> <<>>]

\* aiService.ts:1231-1283 parseNarrativeResponse: the first pattern whose group
\* parses to an object gives the structured block ("P1" carries its own
\* narrative field); without one the raw text is the narrative.  The object
\* returned for a block lists narrative, outcomes, events and nextRoundHints
\* first and spreads the block's own fields after them, so a field the block
\* has replaces the one listed before it (1262-1269).
parseNarrativeResponse(content) ==
  LET r1 == JsonParse(JsonFenceGroup(content))
      r2 == JsonParse(AnyFenceGroup(content))
      r3 == JsonParse(BraceGroup(content))
      block == CASE r1 # "fail" -> r1
                 [] r2 # "fail" -> r2
                 [] r3 # "fail" -> r3
                 [] OTHER -> Null
      keys == BlockKeys(block)
      rawEvents == ResultEvents([block |-> block])
  IN IF block = Null
       THEN [narrative |-> content, block |-> Null,
             keys |-> {"narrative", "outcomes", "events"},
             outcomes |-> <<>>, events |-> <<>>]
       ELSE [narrative |-> IF block = "P1" THEN <<"P1.narrative">> ELSE content,
             block |-> block,
             keys |-> {"narrative", "outcomes", "events", "nextRoundHints"} \cup keys,
             outcomes |-> mapEntityPanelsToOutcomes(BlockPanels(block),
                                                    "perEntityPanel" \in keys),
             events |-> IF "events" \in keys THEN rawEvents
                        ELSE mapTurnEvents(rawEvents, "events" \in keys)]

\* a result that is not the extractor's: the narrative alone (1177-1179,
\* 1222-1224) or the object the response carried (1196-1204)
PlainResult(narrative, block) ==
  [narrative |-> narrative, block |-> block, keys |-> {"narrative"},
   outcomes |-> <<>>, events |-> <<>>]

\* aiService.ts:1160-1225 parseResponse; an empty message.content or content
\* field is falsy and skips the extractor (1190, 1216)
parseResponse(data, provider) ==
  CASE data.shape = "string" -> PlainResult(data.text, Null)
    [] data.shape = "choices" /\ provider # "custom" /\ data.text # <<>> ->
         parseNarrativeResponse(data.text)
    [] data.shape = "result" /\ provider # "custom" -> PlainResult(data.text, "result")
    [] data.shape = "bare" /\ provider # "custom" /\ data.text # <<>> ->
         PlainResult(data.text, "bare")
    [] data.shape = "content" /\ data.text # <<>> -> parseNarrativeResponse(data.text)
    [] OTHER -> PlainResult(<<"JSON.stringify">> \o data.text, Null)

NoResultYet == PlainResult(UndefText, Undef)
NoResponse == [shape |-> "none", text |-> <<>>]
NoThrow == [kind |-> "none", original |-> NoError, attempts |-> 0]
\* aiService.ts:60-65: the credentials of a config are its headers, which
\* callAI spreads into the request (1023); Null is a config without any
cfgAI == [endpoint |-> "ep", provider |-> "default", headers |-> "auth"]
cfgAICustom == [endpoint |-> "ep", provider |-> "custom", headers |-> "auth"]
cfgAINoEndpoint == [endpoint |-> "", provider |-> "default", headers |-> "auth"]
cfgAINoHeaders == [endpoint |-> "ep", provider |-> "default", headers |-> Null]
AIConfigInputs == {cfgAI, cfgAICustom, cfgAINoEndpoint, cfgAINoHeaders}

\* aiService.ts:989-1068: the endpoint check, then the first attempt is sent
callAIEnter(config, n) ==
  /\ ccfg' = config
  /\ retries' = n
  /\ lastError' = NoError
  /\ delays' = <<>>
  /\ cresult' = NoResultYet
  /\ response' = NoResponse
  /\ IF config.endpoint = ""
       THEN /\ cpc' = "thrown"
            /\ cthrown' = [kind |-> "config", original |-> NoError, attempts |-> 0]
            /\ attempt' = 0
            /\ requests' = 0
       ELSE IF n < 1
         THEN /\ cpc' = "thrown"
              /\ cthrown' = [kind |-> "aggregated", original |-> NoError, attempts |-> n]
              /\ attempt' = 1
              /\ requests' = 0
         ELSE /\ cpc' = "attempting"
              /\ cthrown' = NoThrow
              /\ attempt' = 1
              /\ requests' = 1

\* a caller invokes callAI
CallAI(config, n) ==
  /\ cpc = "idle"
  /\ callAIEnter(config, n)
  /\ UNCHANGED NotCall

\* a success whose result is kept while the loop goes on
CallAIResponse_NoReturn(data) ==
  /\ cpc = "attempting"
  /\ response' = data
  /\ cresult' = parseResponse(data, ccfg.provider)
  /\ IF attempt < retries
       THEN /\ attempt' = attempt + 1
            /\ requests' = requests + 1
            /\ cpc' = "attempting"
       ELSE /\ attempt' = attempt
            /\ requests' = requests
            /\ cpc' = "returned"
  /\ UNCHANGED <<ccfg, retries, lastError, delays, cthrown>>
  /\ UNCHANGED NotCall

\* aiService.ts:1068-1093: the request succeeds; its body is parsed and returned
CallAIResponse(data) ==
  /\ cpc = "attempting"
  /\ response' = data
  /\ cresult' = parseResponse(data, ccfg.provider)
  /\ cpc' = "returned"
  /\ UNCHANGED <<ccfg, retries, attempt, lastError, delays, requests, cthrown>>
  /\ UNCHANGED NotCall

\* a catch block that gives up at once on an authentication failure
CallAIFailure_AuthFatal(e) ==
  /\ cpc = "attempting"
  /\ lastError' = e
  /\ IF attempt < retries /\ e.status # 401
       THEN /\ delays' = Append(delays, retryDelay(e, attempt))
            /\ cpc' = "sleeping"
            /\ cthrown' = cthrown
       ELSE /\ delays' = delays
            /\ cpc' = "thrown"
            /\ cthrown' = [kind |-> "aggregated", original |-> e, attempts |-> retries]
  /\ UNCHANGED <<ccfg, retries, attempt, requests, cresult, response>>
  /\ UNCHANGED NotCall

\* a catch block whose last failure ends the call without an error
CallAIFailure_Silent(e) ==
  /\ cpc = "attempting"
  /\ lastError' = e
  /\ IF attempt < retries
       THEN /\ delays' = Append(delays, retryDelay(e, attempt))
            /\ cpc' = "sleeping"
       ELSE /\ delays' = delays
            /\ cpc' = "returned"
  /\ UNCHANGED <<ccfg, retries, attempt, requests, cresult, response, cthrown>>
  /\ UNCHANGED NotCall

\* aiService.ts:1094-1154: the request fails; callAI sleeps before the next
\* attempt or, after the last one, throws the aggregated error
CallAIFailure(e) ==
  /\ cpc = "attempting"
  /\ lastError' = e
  /\ IF attempt < retries
       THEN /\ delays' = Append(delays, retryDelay(e, attempt))
            /\ cpc' = "sleeping"
            /\ cthrown' = cthrown
       ELSE /\ delays' = delays
            /\ cpc' = "thrown"
            /\ cthrown' = [kind |-> "aggregated", original |-> e, attempts |-> retries]
  /\ UNCHANGED <<ccfg, retries, attempt, requests, cresult, response>>
  /\ UNCHANGED NotCall

\* aiService.ts:1147, 1064-1068: the sleep ends and the next attempt is sent
CallAIRetry ==
  /\ cpc = "sleeping"
  /\ attempt' = attempt + 1
  /\ requests' = requests + 1
  /\ cpc' = "attempting"
  /\ UNCHANGED <<ccfg, retries, lastError, delays, cresult, response, cthrown>>
  /\ UNCHANGED NotCall

\* the caller has its result or its error
CallAIDone ==
  /\ cpc \in {"returned", "thrown"}
  /\ cpc' = "idle"
  /\ ccfg' = cfgAI
  /\ retries' = defaultRetries
  /\ attempt' = 0
  /\ lastError' = NoError
  /\ delays' = <<>>
  /\ requests' = 0
  /\ cresult' = NoResultYet
  /\ response' = NoResponse
  /\ cthrown' = NoThrow
  /\ UNCHANGED NotCall

CallInit ==
  /\ cpc = "idle"
  /\ ccfg = cfgAI
  /\ retries = defaultRetries
  /\ attempt = 0
  /\ lastError = NoError
  /\ delays = <<>>
  /\ requests = 0
  /\ cresult = NoResultYet
  /\ response = NoResponse
  /\ cthrown = NoThrow

CallNext ==
  \/ \E c \in AIConfigInputs, n \in 1..MaxRetries : CallAI(c, n)
  \/ \E d \in Responses : CallAIResponse(d)
  \/ \E e \in AIErrors : CallAIFailure(e)
  \/ CallAIRetry
  \/ CallAIDone

(***************************************************************************)
(* aiService.ts: the history store, the Lorebook and performInference      *)
(*                                                                         *)
(* A text is known by the keywords it contains (a set of words) and by its *)
(* token estimate; a stored message by its role, a tag of its content and  *)
(* its token estimate.                                                     *)
(***************************************************************************)
Sessions == {"s1", "s2"}
MaxRound == 2
MaxTurns == 2

\* InferenceRequest.gameInitData: entities (id, name, token estimate of the
\* lore text built from them), the paragraphs of the background story that
\* are longer than 50 characters, the yearly hexagram's name ("" without one)
NoInitData == [present |-> FALSE, entities |-> <<>>, story |-> <<>>, hexagram |-> ""]
InitData ==
  [present |-> TRUE,
   entities |-> << [id |-> "A", name |-> "nameA", tokens |-> 1200],
                   [id |-> "X", name |-> "nameX", tokens |-> 900] >>,
   story |-> <<>>,
   hexagram |-> "hexName"]

\* aiService.ts:141-146
defaultHistoryConfig ==
  [enabled |-> TRUE, maxRounds |-> 10, maxTokens |-> 16000, summarizeOldRounds |-> TRUE]

\* aiService.ts:351-358 estimateTokenCount, by the tag of a text
estimateTokenCount(tag) ==
  CASE tag = "prompt" -> 1500
    [] tag = "reply" -> 800
    [] tag = "longReply" -> 3000
    [] tag = "shortReply" -> 200
    [] tag = "summaryHeader" -> 5
    [] tag = "synopsis" -> 70
    [] tag = "loreHeader" -> 4
    [] OTHER -> 0

RECURSIVE SumTokens(_)
SumTokens(msgs) ==
  IF msgs = <<>> THEN 0 ELSE Head(msgs).tokens + SumTokens(Tail(msgs))

\* aiService.ts:267-279 the grouping of messages into rounds: a group ends
\* with each assistant message
RECURSIVE GroupRounds(_, _)
GroupRounds(msgs, cur) ==
  IF msgs = <<>>
    THEN IF cur = <<>> THEN <<>> ELSE <<cur>>
    ELSE IF Head(msgs).role = "assistant"
      THEN <<Append(cur, Head(msgs))>> \o GroupRounds(Tail(msgs), <<>>)
      ELSE GroupRounds(Tail(msgs), Append(cur, Head(msgs)))

\* the scan with half of maxTokens for budget
RECURSIVE CompressScan_Half(_, _, _, _, _)
CompressScan_Half(rounds, i, acc, n, maxTokens) ==
  IF i = 0 THEN [kept |-> acc, summaries |-> n]
  ELSE IF 10 * (SumTokens(acc) + SumTokens(rounds[i])) <= 5 * maxTokens
    THEN CompressScan_Half(rounds, i - 1, rounds[i] \o acc, n, maxTokens)
    ELSE CompressScan_Half(rounds, i - 1, acc, n + 1, maxTokens)

\* aiService.ts:287-300 the scan from the newest round backward: i is the
\* round looked at, acc the messages kept, n the rounds summarised so far
RECURSIVE CompressScan(_, _, _, _, _)
CompressScan(rounds, i, acc, n, maxTokens) ==
  IF i = 0 THEN [kept |-> acc, summaries |-> n]
  ELSE IF 10 * (SumTokens(acc) + SumTokens(rounds[i])) <= 7 * maxTokens
    THEN CompressScan(rounds, i - 1, rounds[i] \o acc, n, maxTokens)
    ELSE CompressScan(rounds, i - 1, acc, n + 1, maxTokens)

\* aiService.ts:262-312 compressHistory
compressHistory(messages, maxTokens) ==
  LET rounds == GroupRounds(messages, <<>>)
      scan == CompressScan(rounds, Len(rounds), <<>>, 0, maxTokens)
      summaryMessage ==
        [role |-> "system", round |-> 0, tag |-> "summary",
         tokens |-> estimateTokenCount("summaryHeader")
                      + scan.summaries * estimateTokenCount("synopsis")]
  IN IF scan.summaries > 0 THEN <<summaryMessage>> \o scan.kept ELSE scan.kept

\* the rows of the table that belong to a session and a window of rounds, in
\* insertion order
RECURSIVE RowsOf(_, _, _, _)
RowsOf(store, sessionId, lo, hi) ==
  IF store = <<>> THEN <<>>
  ELSE LET h == Head(store)
           rest == RowsOf(Tail(store), sessionId, lo, hi)
       IN IF h.sessionId = sessionId /\ h.round >= lo /\ h.round < hi
            THEN <<h>> \o rest ELSE rest

\* orderBy round asc, createdAt asc: a stable sort of the rows by round
RECURSIVE InsertByRound(_, _)
InsertByRound(sorted, h) ==
  IF sorted = <<>> THEN <<h>>
  ELSE IF Head(sorted).round <= h.round
    THEN <<Head(sorted)>> \o InsertByRound(Tail(sorted), h)
    ELSE <<h>> \o sorted

RECURSIVE SortByRound(_)
SortByRound(rows) ==
  IF rows = <<>> THEN <<>>
  ELSE InsertByRound(SortByRound(SubSeq(rows, 1, Len(rows) - 1)), rows[Len(rows)])

Max(a, b) == IF a >= b THEN a ELSE b

\* a retrieval that takes the current round in (`lte` for `lt`)
getConversationHistory_UpTo(store, sessionId, currentRound, config, readOk) ==
  IF ~config.enabled \/ ~readOk THEN <<>>
  ELSE LET minRound == Max(1, currentRound - config.maxRounds)
           rows == SortByRound(RowsOf(store, sessionId, minRound, currentRound + 1))
           messages == [i \in 1..Len(rows) |->
                          [role |-> rows[i].role, round |-> rows[i].round,
                           tag |-> rows[i].tag, tokens |-> rows[i].tokens]]
       IN IF SumTokens(messages) > config.maxTokens /\ config.summarizeOldRounds
            THEN compressHistory(messages, config.maxTokens)
            ELSE messages

\* aiService.ts:194-257 getConversationHistory; readOk is whether findMany
\* answered
getConversationHistory(store, sessionId, currentRound, config, readOk) ==
  IF ~config.enabled \/ ~readOk THEN <<>>
  ELSE LET minRound == Max(1, currentRound - config.maxRounds)
           rows == SortByRound(RowsOf(store, sessionId, minRound, currentRound))
           messages == [i \in 1..Len(rows) |->
                          [role |-> rows[i].role, round |-> rows[i].round,
                           tag |-> rows[i].tag, tokens |-> rows[i].tokens]]
       IN IF SumTokens(messages) > config.maxTokens /\ config.summarizeOldRounds
            THEN compressHistory(messages, config.maxTokens)
            ELSE messages

\* aiService.ts:169-175, 1380-1383 the two rows a turn stores
RoundRecords(sessionId, round) ==
  << [sessionId |-> sessionId, round |-> round, role |-> "user", tag |-> "prompt",
      tokens |-> estimateTokenCount("prompt")],
     [sessionId |-> sessionId, round |-> round, role |-> "assistant", tag |-> "reply",
      tokens |-> estimateTokenCount("reply")] >>

\* aiService.ts:37 the optional maxActivations of an entry that has none
NotSet == -1

\* A Lorebook entry as the engine creates it, without maxActivations;
\* activationCount 0 is "not set or zero"
LoreEntry(id, keywords, tokens, priority, category) ==
  [id |-> id, keywords |-> keywords, tokens |-> tokens, priority |-> priority,
   enabled |-> TRUE, category |-> category, maxActivations |-> NotSet,
   activationCount |-> 0]

\* aiService.ts:385-447 initializeLorebook: the entry list it stores
initializeLorebook(gameInitData) ==
  LET ents == gameInitData.entities
      entityEntries ==
        [i \in 1..Len(ents) |->
           LoreEntry("entity_" \o ents[i].id,
                     {ents[i].name, ents[i].id, "zhuti" \o ents[i].id},
                     ents[i].tokens, 100 - (i - 1), "entity")]
      storyEntries ==
        [i \in 1..Len(gameInitData.story) |->
           LoreEntry("story_" \o ToString(i - 1), gameInitData.story[i].keywords,
                     gameInitData.story[i].tokens, 50 - (i - 1), "world")]
      hexEntries ==
        IF gameInitData.hexagram = "" THEN <<>>
        ELSE << LoreEntry("yearly_hexagram",
                          {"guaxiang", "zhouyi", gameInitData.hexagram, "niandu", "yunshi"},
                          40, 80, "world") >>
  IN IF gameInitData.present THEN entityEntries \o storyEntries \o hexEntries ELSE <<>>

\* `entry.maxActivations && ...`: undefined and 0 are both falsy
Truthy(n) == n # NotSet /\ n # 0

\* aiService.ts:518-533 whether an entry fires on a prompt holding words
Fires(entry, words) ==
  /\ entry.enabled
  /\ entry.keywords \cap words # {}
  /\ ~(Truthy(entry.maxActivations) /\ entry.activationCount >= entry.maxActivations)

\* aiService.ts:541 sort by priority, highest first (stable)
RECURSIVE InsertByPriority(_, _)
InsertByPriority(sorted, e) ==
  IF sorted = <<>> THEN <<e>>
  ELSE IF Head(sorted).priority >= e.priority
    THEN <<Head(sorted)>> \o InsertByPriority(Tail(sorted), e)
    ELSE <<e>> \o sorted

RECURSIVE SortByPriority(_)
SortByPriority(es) ==
  IF es = <<>> THEN <<>>
  ELSE InsertByPriority(SortByPriority(SubSeq(es, 1, Len(es) - 1)), es[Len(es)])

\* the loop going on to the next entry (`continue` for `break`) when one does
\* not fit
RECURSIVE TakeWithinBudget_Skip(_, _, _)
TakeWithinBudget_Skip(sorted, used, maxTokens) ==
  IF sorted = <<>> THEN <<>>
  ELSE IF used + Head(sorted).tokens > maxTokens
    THEN TakeWithinBudget_Skip(Tail(sorted), used, maxTokens)
  ELSE <<Head(sorted).id>>
         \o TakeWithinBudget_Skip(Tail(sorted), used + Head(sorted).tokens, maxTokens)

\* aiService.ts:547-554 the ids whose content goes into the block, in order
RECURSIVE TakeWithinBudget(_, _, _)
TakeWithinBudget(sorted, used, maxTokens) ==
  IF sorted = <<>> THEN <<>>
  ELSE IF used + Head(sorted).tokens > maxTokens THEN <<>>
  ELSE <<Head(sorted).id>>
         \o TakeWithinBudget(Tail(sorted), used + Head(sorted).tokens, maxTokens)

\* aiService.ts:505-562 getTriggeredLoreEntries: the block it returns, <<>>
\* for the empty text, else the header followed by the injected entries
getTriggeredLoreEntries(entries, words, maxTokens) ==
  LET triggered == SelectSeq(entries, LAMBDA e : Fires(e, words))
  IN IF triggered = <<>> THEN <<>>
     ELSE <<"loreHeader">>
            \o TakeWithinBudget(SortByPriority(triggered),
                                estimateTokenCount("loreHeader"), maxTokens)

\* a lookup that counts an activation only for the entries that a budget of 15
\* tokens lets into the block
TriggeredCounts_Injected(entries, words) ==
  LET block == getTriggeredLoreEntries(entries, words, 15)
  IN [i \in 1..Len(entries) |->
        IF Fires(entries[i], words) /\ \E j \in 1..Len(block) : block[j] = entries[i].id
          THEN [entries[i] EXCEPT !.activationCount = @ + 1]
          ELSE entries[i]]

\* aiService.ts:532 the entry list after the lookup: each fired entry counts
\* one more activation
TriggeredCounts(entries, words) ==
  [i \in 1..Len(entries) |->
     IF Fires(entries[i], words)
       THEN [entries[i] EXCEPT !.activationCount = @ + 1]
       ELSE entries[i]]

\* a capture that takes every event, neutral short-lived ones too
extractAndAddLoreFromResult_AllEvents(entries, round, result) ==
  LET evs == ResultEvents(result)
      eventEntries ==
        [i \in 1..Len(evs) |->
           LoreEntry("event_r" \o ToString(round) \o "_" \o ToString(i - 1),
                     {evs[i].keyword, "desc_" \o evs[i].keyword}, 20, 30, "event")]
      achs == ResultAchievements(result)
      achEntries ==
        [i \in 1..Len(achs) |->
           LoreEntry("achievement_" \o achs[i].id, {achs[i].title, achs[i].entityId},
                     20, 40, "event")]
  IN entries \o eventEntries \o achEntries

\* aiService.ts:582-618 extractAndAddLoreFromResult with addLorebookEntry
\* (567-577): the entry list after the captures are appended
extractAndAddLoreFromResult(entries, round, result) ==
  LET evs == ResultEvents(result)
      important == { i \in 1..Len(evs) :
                       evs[i].isLongTerm \/ evs[i].type \in {"negative", "positive"} }
      eventEntry(i) ==
        LoreEntry("event_r" \o ToString(round) \o "_" \o ToString(i - 1),
                  {evs[i].keyword, "desc_" \o evs[i].keyword}, 20, 30, "event")
      eventEntries ==
        [k \in 1..Cardinality(important) |->
           eventEntry(CHOOSE i \in important :
                        Cardinality({ j \in important : j < i }) = k - 1)]
      achs == ResultAchievements(result)
      achEntries ==
        [i \in 1..Len(achs) |->
           LoreEntry("achievement_" \o achs[i].id, {achs[i].title, achs[i].entityId},
                     20, 40, "event")]
  IN entries \o eventEntries \o achEntries

\* the words of the texts buildPrompt always emits: the output schema names
\* the ids A and B (aiService.ts:778, 807-822)
SchemaWords == {"A", "B", "zhutiA", "zhutiB"}
\* the words of the default rules (aiService.ts:635-644)
DefaultRuleWords == {"guaxiang", "zhouyi", "niandu"}

\* aiService.ts:625-870 buildPrompt: the keywords the prompt text holds
buildPrompt(request) ==
  LET init == request.gameInitData
      ruleWords == IF request.gameRules = "" THEN DefaultRuleWords ELSE {}
      entityWords ==
        UNION { {init.entities[i].id, init.entities[i].name} :
                  i \in 1..Len(init.entities) }
      storyWords == UNION { init.story[i].keywords : i \in 1..Len(init.story) }
      hexWords == IF init.hexagram = "" THEN {}
                  ELSE {"niandu", "guaxiang", init.hexagram}
  IN SchemaWords \cup ruleWords \cup request.mentions
       \cup (IF init.present THEN entityWords \cup storyWords \cup hexWords ELSE {})

\* aiService.ts:625-870 buildPrompt: the sections the prompt text has.  The
\* title, the rules, the active events, the decisions, the request for a
\* JSON answer with its schema (758-845) and the key requirements (846-856)
\* are always there; the world-init sections follow the init data.
PromptSections(request) ==
  LET init == request.gameInitData
  IN {"title", "rules", "activeEvents", "decisions", "schemaRequest", "keyRequirements"}
       \cup (IF init.present /\ Len(init.entities) > 0 THEN {"entities"} ELSE {})
       \cup (IF init.present /\ Len(init.story) > 0 THEN {"background"} ELSE {})
       \cup (IF init.present /\ init.hexagram # "" THEN {"hexagram"} ELSE {})

\* what a caller passes besides the session and the round
RequestShapes ==
  { [gameInitData |-> InitData, gameRules |-> "", mentions |-> {},
     historyConfig |-> defaultHistoryConfig, config |-> cfgAI],
    [gameInitData |-> NoInitData, gameRules |-> "custom", mentions |-> {"X"},
     historyConfig |-> [defaultHistoryConfig EXCEPT !.maxRounds = 1], config |-> cfgAI],
    [gameInitData |-> NoInitData, gameRules |-> "", mentions |-> {},
     historyConfig |-> [defaultHistoryConfig EXCEPT !.maxTokens = 2000], config |-> cfgAI],
    [gameInitData |-> InitData, gameRules |-> "custom", mentions |-> {},
     historyConfig |-> [defaultHistoryConfig EXCEPT !.enabled = FALSE],
     config |-> cfgAINoEndpoint] }
NoRequest ==
  [sessionId |-> "", currentRound |-> 0, gameInitData |-> NoInitData, gameRules |-> "",
   mentions |-> {}, historyConfig |-> defaultHistoryConfig, config |-> cfgAI]
InferRequest(sessionId, round, shape) ==
  [sessionId |-> sessionId, currentRound |-> round,
   gameInitData |-> shape.gameInitData, gameRules |-> shape.gameRules,
   mentions |-> shape.mentions, historyConfig |-> shape.historyConfig,
   config |-> shape.config]
NoPrompt == [words |-> {}, lore |-> <<>>, sections |-> {}]
EmptyLorebook == [s \in Sessions |-> <<>>]

\* the errors and response bodies the AI endpoint answers a turn with
InferErrors == { [status |-> 0, code |-> "ECONNRESET", msg |-> "plain"] }
InferResponses ==
  { [shape |-> "choices", text |-> <<"FJ", "P1", "F">>],
    [shape |-> "choices", text |-> <<"T", "P2">>],
    [shape |-> "choices", text |-> <<"T">>] }

\* callAI is back at rest
CallAtRest ==
  /\ cpc' = "idle"
  /\ ccfg' = cfgAI
  /\ retries' = defaultRetries
  /\ attempt' = 0
  /\ lastError' = NoError
  /\ delays' = <<>>
  /\ requests' = 0
  /\ cresult' = NoResultYet
  /\ response' = NoResponse
  /\ cthrown' = NoThrow

\* a turn that never seeds the Lorebook
PerformInference_NoSeed(request) ==
  /\ ipc = "idle"
  /\ cpc = "idle"
  /\ turns < MaxTurns
  /\ turns' = turns + 1
  /\ ireq' = request
  /\ turnStartLore' = lorebookCache
  /\ turnStartHistory' = history
  /\ lorebookCache' = lorebookCache
  /\ ipc' = "reading_history"
  /\ UNCHANGED <<history, historyMessages, prompt, iresult, ithrown>>
  /\ UNCHANGED callVars
  /\ UNCHANGED NotInfer

\* a turn whose initialisation puts the seeded entries behind those the
\* session already has
PerformInference_KeepsDynamic(request) ==
  /\ ipc = "idle"
  /\ cpc = "idle"
  /\ turns < MaxTurns
  /\ turns' = turns + 1
  /\ ireq' = request
  /\ turnStartLore' = lorebookCache
  /\ turnStartHistory' = history
  /\ lorebookCache' =
       IF request.currentRound = 1 /\ request.gameInitData.present
         THEN [lorebookCache EXCEPT
                 ![request.sessionId] = @ \o initializeLorebook(request.gameInitData)]
         ELSE lorebookCache
  /\ ipc' = "reading_history"
  /\ UNCHANGED <<history, historyMessages, prompt, iresult, ithrown>>
  /\ UNCHANGED callVars
  /\ UNCHANGED NotInfer

\* aiService.ts:1327-1350 performInference is called: in round 1 with init
\* data the Lorebook is initialised, then the history is asked for
PerformInference(request) ==
  /\ ipc = "idle"
  /\ cpc = "idle"
  /\ turns < MaxTurns
  /\ turns' = turns + 1
  /\ ireq' = request
  /\ turnStartLore' = lorebookCache
  /\ turnStartHistory' = history
  /\ lorebookCache' =
       IF request.currentRound = 1 /\ request.gameInitData.present
         THEN [lorebookCache EXCEPT
                 ![request.sessionId] = initializeLorebook(request.gameInitData)]
         ELSE lorebookCache
  /\ ipc' = "reading_history"
  /\ UNCHANGED <<history, historyMessages, prompt, iresult, ithrown>>
  /\ UNCHANGED callVars
  /\ UNCHANGED NotInfer

\* a turn that gives up when the store cannot be read
HistoryRead_Aborts(readOk) ==
  /\ ipc = "reading_history"
  /\ IF readOk
       THEN LET words == buildPrompt(ireq)
                entries == lorebookCache[ireq.sessionId]
            IN /\ historyMessages' =
                    getConversationHistory(history, ireq.sessionId, ireq.currentRound,
                                           ireq.historyConfig, TRUE)
               /\ prompt' = [words |-> words,
                             lore |-> getTriggeredLoreEntries(entries, words, 2000),
                      sections |-> PromptSections(ireq)]
               /\ lorebookCache' =
                    [lorebookCache EXCEPT
                       ![ireq.sessionId] = TriggeredCounts(entries, words)]
               /\ callAIEnter(ireq.config, defaultRetries)
               /\ ipc' = "calling_ai"
               /\ ithrown' = ithrown
       ELSE /\ ipc' = "thrown"
            /\ ithrown' = [kind |-> "history", original |-> NoError, attempts |-> 0]
            /\ UNCHANGED <<historyMessages, prompt, lorebookCache>>
            /\ UNCHANGED callVars
  /\ UNCHANGED <<ireq, history, iresult, turnStartLore, turnStartHistory, turns>>
  /\ UNCHANGED NotInfer

\* aiService.ts:1346-1377 the history arrives (or the store failed); the
\* prompt is built, the lore lookup runs and callAI is entered
HistoryRead(readOk) ==
  /\ ipc = "reading_history"
  /\ LET words == buildPrompt(ireq)
         entries == lorebookCache[ireq.sessionId]
     IN /\ historyMessages' =
             getConversationHistory(history, ireq.sessionId, ireq.currentRound,
                                    ireq.historyConfig, readOk)
        /\ prompt' = [words |-> words,
                      lore |-> getTriggeredLoreEntries(entries, words, 2000),
                             sections |-> PromptSections(ireq)]
        /\ lorebookCache' =
             [lorebookCache EXCEPT ![ireq.sessionId] = TriggeredCounts(entries, words)]
  /\ callAIEnter(ireq.config, defaultRetries)
  /\ ipc' = "calling_ai"
  /\ UNCHANGED <<ireq, history, iresult, ithrown, turnStartLore, turnStartHistory, turns>>
  /\ UNCHANGED NotInfer

\* aiService.ts:1377-1384 callAI returned; the round's two messages are
\* handed to the store
CallReturned ==
  /\ ipc = "calling_ai"
  /\ cpc = "returned"
  /\ iresult' = cresult
  /\ ipc' = "saving_history"
  /\ CallAtRest
  /\ UNCHANGED <<ireq, lorebookCache, history, historyMessages, prompt, ithrown,
                 turnStartLore, turnStartHistory, turns>>
  /\ UNCHANGED NotInfer

\* aiService.ts:1377 callAI threw: performInference rejects with its error
CallThrew ==
  /\ ipc = "calling_ai"
  /\ cpc = "thrown"
  /\ ithrown' = cthrown
  /\ ipc' = "thrown"
  /\ CallAtRest
  /\ UNCHANGED <<ireq, lorebookCache, history, historyMessages, prompt, iresult,
                 turnStartLore, turnStartHistory, turns>>
  /\ UNCHANGED NotInfer

\* the rows of the table that do not belong to a session
RECURSIVE RowsNotOf(_, _)
RowsNotOf(store, sessionId) ==
  IF store = <<>> THEN <<>>
  ELSE IF Head(store).sessionId = sessionId
    THEN RowsNotOf(Tail(store), sessionId)
    ELSE <<Head(store)>> \o RowsNotOf(Tail(store), sessionId)

\* a save that replaces what the session had stored
HistorySaved_Replaces(saveOk) ==
  /\ ipc = "saving_history"
  /\ history' = IF saveOk
                  THEN RowsNotOf(history, ireq.sessionId)
                         \o RoundRecords(ireq.sessionId, ireq.currentRound)
                  ELSE history
  /\ lorebookCache' =
       [lorebookCache EXCEPT
          ![ireq.sessionId] = extractAndAddLoreFromResult(@, ireq.currentRound, iresult)]
  /\ ipc' = "returned"
  /\ UNCHANGED <<ireq, historyMessages, prompt, iresult, ithrown, turnStartLore,
                 turnStartHistory, turns>>
  /\ UNCHANGED callVars
  /\ UNCHANGED NotInfer

\* a turn that fails when its messages cannot be stored
HistorySaved_Rethrows(saveOk) ==
  /\ ipc = "saving_history"
  /\ history' = IF saveOk
                  THEN history \o RoundRecords(ireq.sessionId, ireq.currentRound)
                  ELSE history
  /\ lorebookCache' =
       IF saveOk
         THEN [lorebookCache EXCEPT
                 ![ireq.sessionId] =
                    extractAndAddLoreFromResult(@, ireq.currentRound, iresult)]
         ELSE lorebookCache
  /\ ipc' = IF saveOk THEN "returned" ELSE "thrown"
  /\ ithrown' = IF saveOk THEN ithrown
                ELSE [kind |-> "history", original |-> NoError, attempts |-> 0]
  /\ iresult' = IF saveOk THEN iresult ELSE NoResultYet
  /\ UNCHANGED <<ireq, historyMessages, prompt, turnStartLore, turnStartHistory, turns>>
  /\ UNCHANGED callVars
  /\ UNCHANGED NotInfer

\* aiService.ts:163-189, 1384-1398 createMany answered (or failed, which is
\* only logged); the captures are added to the Lorebook and the result is
\* returned
HistorySaved(saveOk) ==
  /\ ipc = "saving_history"
  /\ history' = IF saveOk
                  THEN history \o RoundRecords(ireq.sessionId, ireq.currentRound)
                  ELSE history
  /\ lorebookCache' =
       [lorebookCache EXCEPT
          ![ireq.sessionId] = extractAndAddLoreFromResult(@, ireq.currentRound, iresult)]
  /\ ipc' = "returned"
  /\ UNCHANGED <<ireq, historyMessages, prompt, iresult, ithrown, turnStartLore,
                 turnStartHistory, turns>>
  /\ UNCHANGED callVars
  /\ UNCHANGED NotInfer

\* the caller has the turn's result or its error
InferDone ==
  /\ ipc \in {"returned", "thrown"}
  /\ ipc' = "idle"
  /\ ireq' = NoRequest
  /\ historyMessages' = <<>>
  /\ prompt' = NoPrompt
  /\ iresult' = NoResultYet
  /\ ithrown' = NoThrow
  /\ turnStartLore' = EmptyLorebook
  /\ turnStartHistory' = <<>>
  /\ UNCHANGED <<lorebookCache, history, turns>>
  /\ UNCHANGED callVars
  /\ UNCHANGED NotInfer

\* aiService.ts:363-377 clearConversationHistory: when deleteMany answers the
\* session's rows are gone and its Lorebook is dropped; when it fails the
\* error is logged and the Lorebook stays
ClearConversationHistory(sessionId, deleteOk) ==
  /\ ipc = "idle"
  /\ turns < MaxTurns
  /\ turns' = turns + 1
  /\ history' = IF deleteOk THEN RowsNotOf(history, sessionId) ELSE history
  /\ lorebookCache' = IF deleteOk THEN [lorebookCache EXCEPT ![sessionId] = <<>>]
                      ELSE lorebookCache
  /\ UNCHANGED <<ipc, ireq, historyMessages, prompt, iresult, ithrown, turnStartLore,
                 turnStartHistory>>
  /\ UNCHANGED callVars
  /\ UNCHANGED NotInfer

InferInit ==
  /\ ipc = "idle"
  /\ ireq = NoRequest
  /\ lorebookCache = EmptyLorebook
  /\ history = <<>>
  /\ historyMessages = <<>>
  /\ prompt = NoPrompt
  /\ iresult = NoResultYet
  /\ ithrown = NoThrow
  /\ turnStartLore = EmptyLorebook
  /\ turnStartHistory = <<>>
  /\ turns = 0

InferNext ==
  \/ \E s \in Sessions, r \in 1..MaxRound, sh \in RequestShapes :
       PerformInference(InferRequest(s, r, sh))
  \/ \E ok \in BOOLEAN : HistoryRead(ok)
  \/ \E d \in InferResponses : ipc = "calling_ai" /\ CallAIResponse(d)
  \/ \E e \in InferErrors : ipc = "calling_ai" /\ CallAIFailure(e)
  \/ ipc = "calling_ai" /\ CallAIRetry
  \/ CallReturned
  \/ CallThrew
  \/ \E ok \in BOOLEAN : HistorySaved(ok)
  \/ InferDone
  \/ \E s \in Sessions, ok \in BOOLEAN : ClearConversationHistory(s, ok)

(***************************************************************************)
(* The history store by itself: saveConversationHistory and                *)
(* getConversationHistory called in any order, as their callers may.       *)
(***************************************************************************)
MaxStored == 3
HistoryConfigInputs ==
  { defaultHistoryConfig,
    [defaultHistoryConfig EXCEPT !.maxRounds = 1],
    [defaultHistoryConfig EXCEPT !.maxTokens = 4000],
    [defaultHistoryConfig EXCEPT !.maxTokens = 4000, !.summarizeOldRounds = FALSE],
    [defaultHistoryConfig EXCEPT !.maxTokens = 100],
    [defaultHistoryConfig EXCEPT !.enabled = FALSE] }

\* aiService.ts:163-189 saveConversationHistory with a turn's two messages
SaveConversationHistory(sessionId, round, saveOk) ==
  /\ ipc = "idle"
  /\ Len(history) < 2 * MaxStored
  /\ history' = IF saveOk THEN history \o RoundRecords(sessionId, round) ELSE history
  /\ ireq' = NoRequest
  /\ historyMessages' = <<>>
  /\ UNCHANGED <<ipc, lorebookCache, prompt, iresult, ithrown, turnStartLore,
                 turnStartHistory, turns>>
  /\ UNCHANGED callVars
  /\ UNCHANGED NotInfer

\* aiService.ts:194-257 getConversationHistory; ireq keeps the arguments and
\* historyMessages the answer
RetrieveConversationHistory(sessionId, currentRound, config, readOk) ==
  /\ ipc = "idle"
  /\ ireq' = [NoRequest EXCEPT !.sessionId = sessionId, !.currentRound = currentRound,
                               !.historyConfig = config]
  /\ historyMessages' = getConversationHistory(history, sessionId, currentRound,
                                               config, readOk)
  /\ UNCHANGED <<ipc, lorebookCache, history, prompt, iresult, ithrown, turnStartLore,
                 turnStartHistory, turns>>
  /\ UNCHANGED callVars
  /\ UNCHANGED NotInfer

StoreNext ==
  \/ \E s \in Sessions, r \in 1..MaxRound, ok \in BOOLEAN : SaveConversationHistory(s, r, ok)
  \/ \E s \in Sessions, r \in 1..(MaxRound + 1), c \in HistoryConfigInputs, ok \in BOOLEAN :
       RetrieveConversationHistory(s, r, c, ok)

(***************************************************************************)
(* compressHistory by itself: called as getConversationHistory calls it,   *)
(* on a history that is over maxTokens, and then again on what it          *)
(* returned.                                                               *)
(***************************************************************************)
MaxCompressRounds == 3
MaxPasses == 3
CompressInit ==
  /\ compressIn = <<>>
  /\ compressMax = 0
  /\ compressOut = <<>>
  /\ compressPass = 0

ReplyTags == { "shortReply", "reply", "longReply" }
CompressBudgets == { 100, 2000, 3300, 5000, 8000, 12000 }

\* the messages of a history of Len(replies) rounds, the reply of round i
\* being of the length replies[i]
RECURSIVE HistoryOf(_, _)
HistoryOf(replies, round) ==
  IF replies = <<>> THEN <<>>
  ELSE << [role |-> "user", round |-> round, tag |-> "prompt",
           tokens |-> estimateTokenCount("prompt")],
          [role |-> "assistant", round |-> round, tag |-> Head(replies),
           tokens |-> estimateTokenCount(Head(replies))] >>
       \o HistoryOf(Tail(replies), round + 1)

CompressInputs ==
  { HistoryOf(replies, 1) :
      replies \in UNION { [1..n -> ReplyTags] : n \in 1..MaxCompressRounds } }

\* aiService.ts:233-236, 262-312 compressHistory called by
\* getConversationHistory, which calls it on a history over maxTokens only
CompressHistory(messages, maxTokens) ==
  /\ SumTokens(messages) > maxTokens
  /\ compressIn' = messages
  /\ compressMax' = maxTokens
  /\ compressOut' = compressHistory(messages, maxTokens)
  /\ compressPass' = 1
  /\ UNCHANGED NotCompress

\* aiService.ts:262-312 compressHistory called on what it returned, with the
\* same maxTokens
CompressAgain ==
  /\ compressPass >= 1
  /\ compressPass < MaxPasses
  /\ compressIn' = compressOut
  /\ compressOut' = compressHistory(compressOut, compressMax)
  /\ compressPass' = compressPass + 1
  /\ UNCHANGED compressMax
  /\ UNCHANGED NotCompress

CompressNext ==
  \/ \E m \in CompressInputs, t \in CompressBudgets : CompressHistory(m, t)
  \/ CompressAgain

(***************************************************************************)
(* buildRequestBody by itself.  A content is a sequence of tokens; the     *)
(* placeholder is one token and the prompt text another.                   *)
(***************************************************************************)
MaxTemplateLen == 3
PromptText == <<"PROMPT">>
Placeholders == { "{{prompt}}", "{{PROMPT}}" }

\* aiService.ts:894-918 replacePlaceholders on a string: every placeholder in
\* it becomes the prompt
RECURSIVE replacePlaceholders(_, _)
replacePlaceholders(content, text) ==
  IF content = <<>> THEN <<>>
  ELSE (IF Head(content) \in Placeholders THEN text ELSE <<Head(content)>>)
         \o replacePlaceholders(Tail(content), text)

\* findIndex(m => m.role === 'system') counted from 1, 0 when there is none
FirstSystem(messages) ==
  IF \E i \in 1..Len(messages) : messages[i].role = "system"
    THEN CHOOSE i \in 1..Len(messages) :
           /\ messages[i].role = "system"
           /\ \A j \in 1..(i - 1) : messages[j].role # "system"
    ELSE 0

\* aiService.ts:966-970 the system message of the default body
DefaultSystemMessage == [role |-> "system", content |-> <<"engine">>]

\* aiService.ts:873-984 buildRequestBody: with a template, the template with
\* its placeholders replaced and the history spliced in behind the first
\* system message of its messages array (at the front when it has none);
\* without one, the default body
buildRequestBody(template, text, priorMessages) ==
  IF template.present
    THEN LET replaced ==
               [i \in 1..Len(template.messages) |->
                  [template.messages[i] EXCEPT !.content = replacePlaceholders(@, text)]]
             insertIndex == FirstSystem(replaced)
         IN [hasMessages |-> template.hasMessages,
             messages |->
               IF priorMessages # <<>> /\ template.hasMessages
                 THEN SubSeq(replaced, 1, insertIndex) \o priorMessages
                        \o SubSeq(replaced, insertIndex + 1, Len(replaced))
                 ELSE replaced,
             prompt |-> replacePlaceholders(template.prompt, text)]
    ELSE [hasMessages |-> TRUE,
          messages |-> <<DefaultSystemMessage>> \o priorMessages
                         \o << [role |-> "user", content |-> text] >>,
          prompt |-> <<>>]

\* the messages a template's array is made of: a system message, the prompt
\* as a user message, fixed examples, and a system message that holds the
\* placeholder behind its rules
TemplateMessages ==
  { [role |-> "system", content |-> <<"rules">>],
    [role |-> "user", content |-> <<"{{prompt}}">>],
    [role |-> "user", content |-> <<"example">>],
    [role |-> "assistant", content |-> <<"sample">>],
    [role |-> "system", content |-> <<"rules", "{{PROMPT}}">>] }
\* aiService.ts:64, 878-880 the bodyTemplate of a config: none, one with a
\* messages array, one with a prompt field instead
NoTemplate == [present |-> FALSE, hasMessages |-> FALSE, messages |-> <<>>, prompt |-> <<>>]
BodyTemplates ==
  { NoTemplate,
    [present |-> TRUE, hasMessages |-> FALSE, messages |-> <<>>,
     prompt |-> <<"{{prompt}}">>] }
  \cup { [present |-> TRUE, hasMessages |-> TRUE, messages |-> m, prompt |-> <<>>] :
           m \in UNION { [1..n -> TemplateMessages] : n \in 0..MaxTemplateLen } }
\* the history handed over: none, one stored round, a compressed history
BodyHistories ==
  { <<>>,
    << [role |-> "user", content |-> <<"prompt1">>],
       [role |-> "assistant", content |-> <<"reply1">>] >>,
    << [role |-> "system", content |-> <<"summary">>],
       [role |-> "user", content |-> <<"prompt2">>],
       [role |-> "assistant", content |-> <<"reply2">>] >> }

NoBody ==
  [template |-> NoTemplate, history |-> <<>>, built |-> FALSE,
   body |-> [hasMessages |-> FALSE, messages |-> <<>>, prompt |-> <<>>]]

\* aiService.ts:873-984, 1001 buildRequestBody called with the prompt
BuildRequestBody(template, priorMessages) ==
  /\ requestBody' = [template |-> template, history |-> priorMessages, built |-> TRUE,
                     body |-> buildRequestBody(template, PromptText, priorMessages)]
  /\ UNCHANGED NotBody

BodyNext == \E t \in BodyTemplates, h \in BodyHistories : BuildRequestBody(t, h)

(***************************************************************************)
(* The Lorebook by itself: its public operations called in any order.      *)
(***************************************************************************)
MaxLoreOps == 3

\* Entries a caller hands to addLorebookEntry: new entries (no activation
\* yet) with keywords k1, k2, with and without maxActivations
WithLimit(entry, enabled, maxActivations) ==
  [entry EXCEPT !.enabled = enabled, !.maxActivations = maxActivations]
LoreEntryInputs ==
  { WithLimit(LoreEntry("e1", {"k1"}, 20, 50, "event"), TRUE, 2),
    WithLimit(LoreEntry("e2", {"k1", "k2"}, 8, 30, "rule"), TRUE, NotSet),
    WithLimit(LoreEntry("e3", {"k2"}, 20, 60, "world"), FALSE, 1),
    WithLimit(LoreEntry("e4", {"k2"}, 20, 20, "event"), TRUE, 1),
    WithLimit(LoreEntry("e5", {"k3"}, 20, 40, "event"), TRUE, 0) }
\* the keywords a prompt text holds
LoreWordInputs == { {}, {"k1"}, {"k2", "A"}, {"k1", "k2"}, {"k3"} }

\* the maxTokens a caller hands to getTriggeredLoreEntries: the default and
\* the engine's 2000, and one that an entry of 8 tokens fits and an entry of
\* 20 does not
LoreBudgets == { 2000, 15 }
NoLoreOp == [op |-> "none", sessionId |-> "", maxTokens |-> 0]
\* the results handed to extractAndAddLoreFromResult, by their block
LoreResultInputs ==
  { parseNarrativeResponse(<<"P1">>), parseNarrativeResponse(<<"T", "P2">>) }

\* aiService.ts:385-447 initializeLorebook called for a session
InitializeLorebook(sessionId) ==
  /\ ipc = "idle"
  /\ turns < MaxLoreOps
  /\ turns' = turns + 1
  /\ loreOp' = [op |-> "initialize", sessionId |-> sessionId, maxTokens |-> 0]
  /\ lorebookCache' = [lorebookCache EXCEPT ![sessionId] = initializeLorebook(InitData)]
  /\ ireq' = NoRequest
  /\ prompt' = NoPrompt
  /\ UNCHANGED <<ipc, history, historyMessages, iresult, ithrown, turnStartLore,
                 turnStartHistory>>
  /\ UNCHANGED callVars
  /\ UNCHANGED NotLore

\* an add that stores the entry in every session's list
AddLorebookEntry_Shared(sessionId, entry) ==
  /\ ipc = "idle"
  /\ turns < MaxLoreOps
  /\ turns' = turns + 1
  /\ loreOp' = [op |-> "add", sessionId |-> sessionId, maxTokens |-> 0]
  /\ lorebookCache' = [s \in Sessions |-> Append(lorebookCache[s], entry)]
  /\ ireq' = NoRequest
  /\ prompt' = NoPrompt
  /\ UNCHANGED <<ipc, history, historyMessages, iresult, ithrown, turnStartLore,
                 turnStartHistory>>
  /\ UNCHANGED callVars
  /\ UNCHANGED NotLore

\* aiService.ts:567-577 addLorebookEntry
AddLorebookEntry(sessionId, entry) ==
  /\ ipc = "idle"
  /\ turns < MaxLoreOps
  /\ turns' = turns + 1
  /\ loreOp' = [op |-> "add", sessionId |-> sessionId, maxTokens |-> 0]
  /\ lorebookCache' = [lorebookCache EXCEPT ![sessionId] = Append(@, entry)]
  /\ ireq' = NoRequest
  /\ prompt' = NoPrompt
  /\ UNCHANGED <<ipc, history, historyMessages, iresult, ithrown, turnStartLore,
                 turnStartHistory>>
  /\ UNCHANGED callVars
  /\ UNCHANGED NotLore

\* aiService.ts:505-562 getTriggeredLoreEntries called for a session; ireq
\* keeps the session, prompt the prompt's words and the block returned
GetTriggeredLoreEntries(sessionId, words, maxTokens) ==
  /\ ipc = "idle"
  /\ turns < MaxLoreOps
  /\ turns' = turns + 1
  /\ loreOp' = [op |-> "getTriggered", sessionId |-> sessionId,
                maxTokens |-> maxTokens]
  /\ ireq' = [NoRequest EXCEPT !.sessionId = sessionId]
  /\ prompt' = [words |-> words,
                lore |-> getTriggeredLoreEntries(lorebookCache[sessionId], words,
                                                 maxTokens),
                sections |-> {}]
  /\ lorebookCache' =
       [lorebookCache EXCEPT ![sessionId] = TriggeredCounts(@, words)]
  /\ UNCHANGED <<ipc, history, historyMessages, iresult, ithrown, turnStartLore,
                 turnStartHistory>>
  /\ UNCHANGED callVars
  /\ UNCHANGED NotLore

\* aiService.ts:582-618 extractAndAddLoreFromResult called for a session
ExtractAndAddLoreFromResult(sessionId, round, result) ==
  /\ ipc = "idle"
  /\ turns < MaxLoreOps
  /\ turns' = turns + 1
  /\ loreOp' = [op |-> "extract", sessionId |-> sessionId, maxTokens |-> 0]
  /\ lorebookCache' =
       [lorebookCache EXCEPT ![sessionId] = extractAndAddLoreFromResult(@, round, result)]
  /\ ireq' = NoRequest
  /\ prompt' = NoPrompt
  /\ UNCHANGED <<ipc, history, historyMessages, iresult, ithrown, turnStartLore,
                 turnStartHistory>>
  /\ UNCHANGED callVars
  /\ UNCHANGED NotLore

\* aiService.ts:363-377 clearConversationHistory at the end of a session:
\* the Lorebook is dropped after deleteMany has answered, and stays when it
\* throws
ClearSession(sessionId, deleteOk) ==
  /\ ipc = "idle"
  /\ turns < MaxLoreOps
  /\ turns' = turns + 1
  /\ loreOp' = [op |-> IF deleteOk THEN "clear" ELSE "clearFailed",
                sessionId |-> sessionId, maxTokens |-> 0]
  /\ history' = IF deleteOk THEN RowsNotOf(history, sessionId) ELSE history
  /\ lorebookCache' = IF deleteOk THEN [lorebookCache EXCEPT ![sessionId] = <<>>]
                      ELSE lorebookCache
  /\ ireq' = NoRequest
  /\ prompt' = NoPrompt
  /\ UNCHANGED <<ipc, historyMessages, iresult, ithrown, turnStartLore, turnStartHistory>>
  /\ UNCHANGED callVars
  /\ UNCHANGED NotLore

LoreNext ==
  \/ \E s \in Sessions : InitializeLorebook(s)
  \/ \E s \in Sessions, e \in LoreEntryInputs : AddLorebookEntry(s, e)
  \/ \E s \in Sessions, w \in LoreWordInputs, t \in LoreBudgets :
       GetTriggeredLoreEntries(s, w, t)
  \/ \E s \in Sessions, r \in 1..MaxRound, res \in LoreResultInputs :
       ExtractAndAddLoreFromResult(s, r, res)
  \/ \E s \in Sessions, ok \in BOOLEAN : ClearSession(s, ok)

(***************************************************************************)
(* useDualApi.ts: the client hook.  Its functions are async; a call runs   *)
(* up to its fetch, and the rest runs when the fetch is answered, so calls *)
(* overlap.  config, prompt and entities only travel to the server.        *)
(***************************************************************************)
MaxHookCalls == 3
NarrativeTexts == {"n1", "n2"}
PanelValues == {"P1", "P2"}

\* useDualApi.ts:101-110 and 253-262
InitialState ==
  [narrativeLoading |-> FALSE, narrative |-> Null, narrativeError |-> Null,
   parserLoading |-> FALSE, parserRawText |-> Null, parseSuccess |-> FALSE,
   panelData |-> Null, parserError |-> Null]

\* What `await fetch(...)` then `response.json()` of /api/dual/narrative can
\* give (routes.ts:80-114): a body, or a thrown error with or without message.
NarrativeFetchOutcomes ==
  [thrown : {FALSE}, success : {TRUE}, narrative : NarrativeTexts \cup {""},
   error : {Undef}]
    \cup [thrown : {FALSE}, success : {FALSE}, narrative : {Undef},
          error : {"API_KEY_INVALID", Undef}]
    \cup [thrown : {TRUE}, success : {FALSE}, narrative : {Undef},
          error : {"error.message", ""}]

\* The same for /api/dual/parse (routes.ts:120-166); parseSuccess is "true",
\* "false" or missing
ParseFetchOutcomes ==
  [thrown : {FALSE}, success : {TRUE}, rawText : {"raw"}, parseSuccess : {"true"},
   panelData : PanelValues, error : {Undef}]
    \cup [thrown : {FALSE}, success : {TRUE}, rawText : {"raw"}, parseSuccess : {"false"},
          panelData : {Undef}, error : {Undef}]
    \cup [thrown : {FALSE}, success : {FALSE}, rawText : {Undef}, parseSuccess : {Undef},
          panelData : {Undef}, error : {"PARSE_FAILED", Undef}]
    \cup [thrown : {TRUE}, success : {FALSE}, rawText : {Undef}, parseSuccess : {Undef},
          panelData : {Undef}, error : {"error.message", ""}]

\* the currentRound a component hands to parseNarrative
ParseRoundInputs == { RoundOrOne(r) : r \in RoundInputs }

\* `x || dflt` for the values the hook reads
OrDefault(x, dflt) == IF x \in {Undef, Null, ""} THEN dflt ELSE x

\* a parse that blanks the narrative while it runs
parseStarted_Blanks(st) ==
  [st EXCEPT !.parserLoading = TRUE, !.parserError = Null,
             !.parserRawText = Null, !.parseSuccess = FALSE, !.narrative = Null]

\* useDualApi.ts:175-181 and 184-193, parseNarrative up to its fetch
parseStarted(st) ==
  [st EXCEPT !.parserLoading = TRUE, !.parserError = Null,
             !.parserRawText = Null, !.parseSuccess = FALSE]

\* useDualApi.ts:122-139, generateNarrative up to its fetch
narrativeStarted(st) == [st EXCEPT !.narrativeLoading = TRUE, !.narrativeError = Null]

\* useDualApi.ts:113-139 generateNarrative called by a component
GenerateNarrative(round) ==
  /\ hookCalls < MaxHookCalls
  /\ hookCalls' = hookCalls + 1
  /\ state' = narrativeStarted(state)
  /\ narrativeFetches' = narrativeFetches \cup
        {[id |-> hookCalls + 1, currentRound |-> RoundOrOne(round), full |-> FALSE]}
  /\ UNCHANGED <<parseFetches, shownRound>>
  /\ UNCHANGED NotHook

\* useDualApi.ts:223-239 executeFullRound up to the fetch of its narrative
ExecuteFullRound(round) ==
  /\ hookCalls < MaxHookCalls
  /\ hookCalls' = hookCalls + 1
  /\ state' = narrativeStarted(state)
  /\ narrativeFetches' = narrativeFetches \cup
        {[id |-> hookCalls + 1, currentRound |-> RoundOrOne(round), full |-> TRUE]}
  /\ UNCHANGED <<parseFetches, shownRound>>
  /\ UNCHANGED NotHook

\* useDualApi.ts:141-165 generateNarrative from the answer of its fetch, and
\* for executeFullRound lines 241-246: the parse is started on a narrative
NarrativeFetchReturns(f, o) ==
  /\ f \in narrativeFetches
  /\ narrativeFetches' = narrativeFetches \ {f}
  /\ LET ok == (~o.thrown) /\ o.success /\ o.narrative # ""
         st == IF ok
                 THEN [state EXCEPT !.narrativeLoading = FALSE,
                                    !.narrative = o.narrative]
                 ELSE [state EXCEPT !.narrativeLoading = FALSE,
                                    !.narrativeError =
                                       IF o.thrown
                                         THEN OrDefault(o.error, "NETWORK_ERROR")
                                         ELSE OrDefault(o.error, "NARRATIVE_FAILED")]
     IN /\ shownRound' = IF ok THEN f.currentRound ELSE shownRound
        /\ IF ok /\ f.full
             THEN /\ state' = parseStarted(st)
                  /\ parseFetches' = parseFetches \cup
                        {[id |-> f.id, narrative |-> o.narrative,
                          currentRound |-> f.currentRound]}
             ELSE /\ state' = st
                  /\ parseFetches' = parseFetches
  /\ UNCHANGED hookCalls
  /\ UNCHANGED NotHook

\* useDualApi.ts:169-193 parseNarrative up to its fetch
ParseNarrative(narrative, round) ==
  /\ hookCalls < MaxHookCalls
  /\ hookCalls' = hookCalls + 1
  /\ state' = parseStarted(state)
  /\ parseFetches' = parseFetches \cup
        {[id |-> hookCalls + 1, narrative |-> narrative, currentRound |-> round]}
  /\ UNCHANGED <<narrativeFetches, shownRound>>
  /\ UNCHANGED NotHook

\* useDualApi.ts:195-219 parseNarrative from the answer of its fetch
ParseFetchReturns(f, o) ==
  /\ f \in parseFetches
  /\ parseFetches' = parseFetches \ {f}
  /\ state' =
       IF o.thrown
         THEN [state EXCEPT !.parserLoading = FALSE,
                            !.parserError = OrDefault(o.error, "NETWORK_ERROR")]
         ELSE [state EXCEPT !.parserLoading = FALSE,
                            !.parserRawText = OrDefault(o.rawText, Null),
                            !.parseSuccess = (o.parseSuccess = "true"),
                            !.panelData = OrDefault(o.panelData, Null),
                            !.parserError =
                               IF o.success THEN Null
                                            ELSE OrDefault(o.error, "PARSE_FAILED")]
  /\ UNCHANGED <<narrativeFetches, hookCalls, shownRound>>
  /\ UNCHANGED NotHook

\* useDualApi.ts:252-263 reset
Reset ==
  /\ hookCalls < MaxHookCalls
  /\ hookCalls' = hookCalls + 1
  /\ state' = InitialState
  /\ shownRound' = 0
  /\ UNCHANGED <<narrativeFetches, parseFetches>>
  /\ UNCHANGED NotHook

HookInit ==
  /\ state = InitialState
  /\ narrativeFetches = {}
  /\ parseFetches = {}
  /\ hookCalls = 0
  /\ shownRound = 0

HookNext ==
  \/ \E r \in RoundInputs : GenerateNarrative(r)
  \/ \E r \in RoundInputs : ExecuteFullRound(r)
  \/ \E f \in narrativeFetches : \E o \in NarrativeFetchOutcomes : NarrativeFetchReturns(f, o)
  \/ \E n \in NarrativeTexts, r \in ParseRoundInputs : ParseNarrative(n, r)
  \/ \E f \in parseFetches : \E o \in ParseFetchOutcomes : ParseFetchReturns(f, o)
  \/ Reset

Init ==
  /\ RouteInit /\ CallInit /\ InferInit /\ HookInit /\ loreOp = NoLoreOp
  /\ CompressInit /\ requestBody = NoBody

CallSpec == Init /\ [][CallNext]_vars

RouteSpec == Init /\ [][RouteNext]_vars

InferSpec == Init /\ [][InferNext]_vars

HookSpec == Init /\ [][HookNext]_vars

StoreSpec == Init /\ [][StoreNext]_vars

LoreSpec == Init /\ [][LoreNext]_vars

CompressSpec == Init /\ [][CompressNext]_vars

BodySpec == Init /\ [][BodyNext]_vars

(***************************************************************************)
(* Properties of the dual-API routes                                       *)
(***************************************************************************)
NarrativeCalls == { i \in 1..Len(calls) : calls[i].kind = "narrative" }
ParserCalls == { i \in 1..Len(calls) : calls[i].kind = "parser" }
\* the narrative call of the current request came back with a usable text
NarrativeSucceeded == narrativeResult.success /\ narrativeResult.narrative # <<>>
\* the caller has been handed the narrative text
NarrativeDelivered ==
  "narrative" \in DOMAIN resp /\ resp.narrative # UndefText /\ resp.narrative # <<>>

\* C1 (as claimed): in a full round whose narrative call succeeded, the
\* narrative has been delivered to the caller whenever the parser call has
\* been started.
C1_NarrativeDeliveredBeforeParser ==
  (route = "full-round" /\ NarrativeSucceeded /\ ParserCalls # {}) => NarrativeDelivered

\* C2: when the parser call of a full round fails or yields no structured
\* block, the round is still answered as a success and carries the text the
\* narrative call produced; the narrative result is not touched by the
\* parser half.
C2_ParserDegradation ==
  /\ []((route = "full-round" /\ rpc = "done" /\ ParserCalls # {}
          /\ parseResult.parseSuccess # "true")
        => (/\ resp.status = 200
            /\ resp.success = TRUE
            /\ narrativeResult.success = TRUE
            /\ resp.narrative = narrativeResult.narrative
            /\ resp.narrative = calls[2].narrative))
  /\ [][(route = "full-round" /\ rpc = "calling_parser")
         => narrativeResult' = narrativeResult]_vars

C2_Witness ==
  /\ route = "full-round" /\ rpc = "done"
  /\ ParserCalls # {}
  /\ parseResult.success = FALSE
  /\ resp.success = TRUE
  /\ resp.narrative = <<"a", "sp", "b">>

\* C3 (as claimed): when the narrative call of a full round fails, no parser
\* call is issued, the round ends with the narrative-failed answer, and that
\* answer carries a retryable flag.
C3_NarrativeFailureBlocks ==
  (route = "full-round" /\ rpc = "done" /\ NarrativeCalls # {} /\ ~NarrativeSucceeded)
    => (/\ ParserCalls = {}
        /\ resp.success = FALSE
        /\ resp.step = "narrative"
        /\ "canRetry" \in DOMAIN resp
        /\ resp.canRetry = TRUE)

\* C5 (as claimed): when the parser call of a full round fails, the answer
\* reports the structured result as failed, carries the parser's error and
\* has canRetry = true.
C5_ParserFailureReported ==
  (route = "full-round" /\ rpc = "done" /\ ParserCalls # {} /\ ~parseResult.success)
    => (/\ resp.parseSuccess # "true"
        /\ resp.parseError = parseResult.error
        /\ "canRetry" \in DOMAIN resp
        /\ resp.canRetry = TRUE)

\* C6 (as claimed): at most one external call is in flight, the parser call
\* starts only after the narrative call has completed, and a finished full
\* round (one that passed the configuration check) has issued each of the two
\* calls exactly once.
C6_EachCallExactlyOnce ==
  /\ Cardinality(inflight) <= 1
  /\ (ParserCalls # {} /\ route = "full-round")
       => (NarrativeCalls # {} /\ \A c \in inflight : c.kind = "parser")
  /\ (route = "full-round" /\ rpc = "done" /\ resp.status = 200)
       => (Cardinality(NarrativeCalls) = 1 /\ Cardinality(ParserCalls) = 1)

\* C6 (amended): at most one external call is in flight; the parser call is
\* started only after the narrative call has come back with a narrative;
\* each call is issued at most once per round; a round that passed the
\* configuration check has issued the narrative call exactly once, and the
\* parser call exactly once if and only if the narrative call succeeded.
C6_Sequential ==
  /\ Cardinality(inflight) <= 1
  /\ Cardinality(NarrativeCalls) <= 1
  /\ Cardinality(ParserCalls) <= 1
  /\ (route = "full-round" /\ ParserCalls # {})
       => (/\ NarrativeCalls = {1}
           /\ ParserCalls = {2}
           /\ NarrativeSucceeded
           /\ \A c \in inflight : c.kind = "parser")
  /\ (route = "full-round" /\ rpc = "done" /\ resp.status = 200)
       => (/\ Cardinality(NarrativeCalls) = 1
           /\ (Cardinality(ParserCalls) = 1 <=> NarrativeSucceeded))

C6_Witness ==
  /\ route = "full-round" /\ rpc = "calling_parser"
  /\ Len(calls) = 2
  /\ inflight = {calls[2]}

\* C7: POST /parse issues no narrative call, hands the stored narrative to the
\* parser call as it received it, and leaves it as it was.
C7_ReparseOnlyParser ==
  /\ [](route = "parse"
        => (/\ NarrativeCalls = {}
            /\ \A i \in 1..Len(calls) :
                 calls[i].kind = "parser" /\ calls[i].narrative = req.narrative
            /\ \A c \in inflight : c.kind = "parser" /\ c.narrative = req.narrative))
  /\ [][(route = "parse" /\ route' = "parse") => req'.narrative = req.narrative]_vars

C7_Witness ==
  /\ route = "parse" /\ rpc = "done"
  /\ resp.status = 200 /\ resp.success = TRUE
  /\ Len(calls) = 1
  /\ calls[1].narrative = <<"sp", "a">>

\* C8 (as claimed): a full round given a single configuration uses it for
\* both calls; given two, each call uses its own.
C8_ConfigRouting ==
  (route = "full-round" /\ rpc = "done")
    => LET nc == req.narrativeConfig
           pc == req.parserConfig
           single == IF ~pc.present THEN nc ELSE pc
       IN /\ ((nc.present # pc.present) /\ ~ConfigMissing(single))
               => (/\ NarrativeCalls # {}
                   /\ \A i \in 1..Len(calls) : calls[i].config = single)
          /\ (nc.present /\ pc.present)
               => (/\ \A i \in NarrativeCalls : calls[i].config = nc
                   /\ \A i \in ParserCalls : calls[i].config = pc)

(***************************************************************************)
(* Properties of AIService.callAI                                          *)
(***************************************************************************)
\* the failure classes of an axios error, by what went wrong
FailureKind(e) ==
  CASE e.status # 0 -> "http"
    [] e.code = "ECONNRESET" -> "reset"
    [] e.code \in {"EPIPE", "EPROTO"} -> "protocol"
    [] e.code = "ETIMEDOUT" -> "timeout"
    [] e.code = "ECONNREFUSED" -> "refused"
    [] e.code = "ENOTFOUND" -> "dns"
    [] e.msg = "socket" -> "reset"
    [] e.msg = "TLS" -> "protocol"
    [] OTHER -> "other"

ConnectionClass(e) == FailureKind(e) \in {"reset", "protocol", "timeout", "refused"}

C10_ReturnOnFirstSuccess ==
  /\ [](requests <= retries)
  /\ [](cpc = "attempting" => (requests = attempt /\ Len(delays) = attempt - 1))
  /\ [](cpc = "returned"
          => (/\ requests = attempt
              /\ Len(delays) = attempt - 1
              /\ cresult # NoResultYet
              /\ cthrown = NoThrow))
  /\ [][(cresult' # cresult /\ cresult' # NoResultYet)
         => (/\ cpc = "attempting"
             /\ cpc' = "returned"
             /\ requests' = requests
             /\ delays' = delays)]_vars
  /\ [][cpc = "returned" => (cpc' = "idle" /\ requests' = 0)]_vars
  /\ [][requests' > requests => (requests' = requests + 1 /\ cpc # "attempting")]_vars

C10_Witness ==
  /\ cpc = "returned"
  /\ retries = 5
  /\ attempt = 3
  /\ requests = 3
  /\ Len(delays) = 2
  /\ cresult.block = "P1"

(***************************************************************************)
(* Properties of AIService.performInference                                *)
(***************************************************************************)
\* C4 (as claimed): when the AI call of a turn has failed on every one of its
\* attempts, the history store and the Lorebook (entries and activation
\* counts) are what they were when the turn started.
C4_FailedTurnLeavesStateUnchanged ==
  (ipc = "thrown" /\ ithrown.kind = "aggregated" /\ ithrown.attempts = defaultRetries)
    => (/\ history = turnStartHistory
        /\ lorebookCache = turnStartLore)

C12_AggregatedError ==
  /\ [][(cpc = "attempting" /\ cpc' # "attempting" /\ cresult' = cresult
           /\ attempt >= retries)
         => (/\ cpc' = "thrown"
             /\ cthrown = NoThrow
             /\ cthrown'.kind = "aggregated"
             /\ cthrown'.original = lastError'
             /\ cthrown'.original \in AIErrors
             /\ cthrown'.attempts = retries)]_vars
  /\ []((cpc = "thrown" /\ cthrown.kind = "aggregated")
          => (/\ cresult = NoResultYet
              /\ cthrown.original = lastError
              /\ cthrown.attempts = requests))
  /\ [][cpc = "thrown" => (cpc' = "idle" /\ cthrown' = NoThrow)]_vars
  /\ [](cpc = "returned" => cresult # NoResultYet)

C12_Witness ==
  /\ cpc = "thrown"
  /\ retries = 3
  /\ requests = 3
  /\ cthrown.kind = "aggregated"
  /\ cthrown.original.code = "ETIMEDOUT"
  /\ delays = <<1000, 2000>>


\* C13: a call whose configuration has no endpoint, or no credentials, is
\* over at once with a configuration error: no request was sent, no attempt
\* was counted and no backoff delay was slept.
C13_MissingConfigFatal ==
  []((cpc # "idle" /\ (ccfg.endpoint = "" \/ ccfg.headers = Null))
       => (/\ cpc = "thrown"
           /\ cthrown.kind = "config"
           /\ requests = 0
           /\ attempt = 0
           /\ delays = <<>>))

\* the endpoint half of C13
C13_NoEndpointFatal ==
  []((cpc # "idle" /\ ccfg.endpoint = "")
       => (/\ cpc = "thrown"
           /\ cthrown.kind = "config"
           /\ requests = 0
           /\ attempt = 0
           /\ delays = <<>>))


\* C14: a narrative call, and likewise a parser call, that is reported as
\* failed after a transport error has been retried: the service was called
\* more than once before the failure was declared.
C14_RetriedBeforeFailure ==
  /\ (rpc = "done" /\ narrativeResult # NoResult /\ ~narrativeResult.success
        /\ narrativeResult.error # "EMPTY_CONTENT")
       => Cardinality(NarrativeCalls) >= 2
  /\ (rpc = "done" /\ parseResult # NoParse /\ ~parseResult.success
        /\ parseResult.error # "EMPTY_CONTENT")
       => Cardinality(ParserCalls) >= 2


(***************************************************************************)
(* Properties of the client hook                                           *)
(***************************************************************************)
\* C15: once the hook holds a completed narrative for a round, no step that
\* leaves it holding that round's narrative changes the text (a parse
\* request, its answer or failure, a further narrative request for the same
\* round), and panel data is replaced only while the parse status is not
\* completed.
C15_NarrativeImmutable ==
  /\ [][(state.narrative # Null /\ shownRound' = shownRound)
          => state'.narrative = state.narrative]_vars
  /\ [][(state.parseSuccess /\ shownRound' = shownRound)
          => state'.panelData = state.panelData]_vars

\* the parse half of C15: no step of a parse request touches the narrative
C15_ParseKeepsNarrative ==
  [][(parseFetches' # parseFetches /\ narrativeFetches' = narrativeFetches)
       => (state'.narrative = state.narrative /\ shownRound' = shownRound)]_vars


Retrieved == SelectSeq(historyMessages, LAMBDA m : m.tag # "summary")
\* the roles of the messages of one round, in order
RolesOfRound(msgs, r) ==
  LET sel == SelectSeq(msgs, LAMBDA m : m.round = r)
  IN [i \in 1..Len(sel) |-> sel[i].role]
RECURSIVE IsSubSeq(_, _)
IsSubSeq(a, b) ==
  IF a = <<>> THEN TRUE
  ELSE IF b = <<>> THEN FALSE
  ELSE IF Head(a) = Head(b) THEN IsSubSeq(Tail(a), Tail(b))
  ELSE IsSubSeq(a, Tail(b))

\* C17: after any saves, what a retrieval for (sessionId, currentRound,
\* config) returns of the store lies in rounds
\* max(1, currentRound - maxRounds) .. currentRound - 1, holds for each of
\* these rounds no more than the session has stored for it and in the order
\* of insertion, and is ordered by round.
C17_RetrievalWindow ==
  ireq # NoRequest =>
    LET cr == ireq.currentRound
        lo == IF cr - ireq.historyConfig.maxRounds >= 1
                THEN cr - ireq.historyConfig.maxRounds ELSE 1
    IN /\ \A i \in 1..Len(Retrieved) :
            Retrieved[i].round >= lo /\ Retrieved[i].round < cr
       /\ \A i \in 1..(Len(Retrieved) - 1) : Retrieved[i].round <= Retrieved[i + 1].round
       /\ \A r \in 1..(MaxRound + 1) :
            IsSubSeq(RolesOfRound(Retrieved, r),
                     RolesOfRound(SelectSeq(history,
                                            LAMBDA h : h.sessionId = ireq.sessionId), r))

\* a retrieval for round 3 with maxRounds 1 over a store that holds rounds 1
\* and 2 of the session, round 2 twice, and a round of the other session
C17_Witness ==
  /\ ireq.sessionId = "s1" /\ ireq.currentRound = 3 /\ ireq.historyConfig.maxRounds = 1
  /\ history = RoundRecords("s1", 2) \o RoundRecords("s2", 2) \o RoundRecords("s1", 1)
  /\ Len(historyMessages) = 2


\* C18: whether or not the store answers the history query, the turn goes on
\* from it to the AI call with its prompt built: a failed read gives the
\* empty history, the request is issued as after a good read, and a turn
\* fails only with the error of its AI call.
C18_ReadFailureTolerated ==
  /\ [][ipc = "reading_history"
          => (/\ ipc' = "calling_ai"
              /\ historyMessages' \in
                   {<<>>, getConversationHistory(history, ireq.sessionId, ireq.currentRound,
                                                 ireq.historyConfig, TRUE)}
              /\ prompt'.words = buildPrompt(ireq)
              /\ IF ireq.config.endpoint = ""
                   THEN cpc' = "thrown" /\ cthrown'.kind = "config"
                   ELSE cpc' = "attempting" /\ requests' = 1
              /\ ithrown' = NoThrow)]_vars
  /\ [](ipc = "thrown" => ithrown.kind \in {"config", "aggregated"})
  /\ [](ipc = "returned" => iresult # NoResultYet)

\* round 2 of a session whose round 1 is stored and within the window: the
\* read failed, the history is empty and the turn has returned its result
C18_Witness ==
  /\ ipc = "returned"
  /\ ireq.sessionId = "s1" /\ ireq.currentRound = 2
  /\ ireq.historyConfig = defaultHistoryConfig
  /\ turnStartHistory = RoundRecords("s1", 1)
  /\ historyMessages = <<>>
  /\ iresult # NoResultYet


\* C19: whether or not the store takes the turn's messages, the step after
\* a successful AI call ends the turn as returned with the AI result
\* unchanged and nothing thrown, and the result's events and achievements
\* are captured in the session's Lorebook; a failed save only leaves the
\* store as it was.
C19_WriteFailureTolerated ==
  [][ipc = "saving_history"
       => (/\ ipc' = "returned"
           /\ iresult # NoResultYet
           /\ iresult' = iresult
           /\ ithrown' = NoThrow
           /\ history' \in {history,
                            history \o RoundRecords(ireq.sessionId, ireq.currentRound)}
           /\ lorebookCache' =
                [lorebookCache EXCEPT
                   ![ireq.sessionId] =
                      extractAndAddLoreFromResult(@, ireq.currentRound, iresult)])]_vars

\* a turn whose save failed has returned a result with captures: the store
\* is as the turn found it and the Lorebook holds the captured achievement
C19_Witness ==
  /\ ipc = "returned"
  /\ iresult.block = "P1"
  /\ history = turnStartHistory
  /\ \E i \in 1..Len(lorebookCache[ireq.sessionId]) :
       lorebookCache[ireq.sessionId][i].id = "achievement_ach_1"
  /\ \A i \in 1..Len(turnStartLore[ireq.sessionId]) :
       turnStartLore[ireq.sessionId][i].id # "achievement_ach_1"


\* a step that is a Lorebook lookup for the session ireq' names
LookupStep == turns' = turns + 1 /\ ireq' # NoRequest /\ ireq'.sessionId \in Sessions
\* what C20 says decides whether an entry fires on a prompt holding words:
\* it is enabled, one of its keywords occurs, and its count is below its
\* maxActivations when it has one
ShouldFire(e, words) ==
  /\ e.enabled
  /\ \E k \in e.keywords : k \in words
  /\ (e.maxActivations # NotSet => e.activationCount < e.maxActivations)

\* C20: in a lookup, every entry of the session that should fire counts
\* exactly one more activation, every other entry keeps its count, and the
\* returned block holds only entries that should fire; and no entry with
\* maxActivations set ever has activationCount above it.
C20_ActivationRule ==
  /\ [][LookupStep =>
          LET s == ireq'.sessionId
              words == prompt'.words
          IN /\ Len(lorebookCache'[s]) = Len(lorebookCache[s])
             /\ \A i \in 1..Len(lorebookCache[s]) :
                  LET e == lorebookCache[s][i]
                  IN IF ShouldFire(e, words)
                       THEN lorebookCache'[s][i].activationCount = e.activationCount + 1
                       ELSE lorebookCache'[s][i].activationCount = e.activationCount
             /\ \A j \in 1..Len(prompt'.lore) :
                  \/ prompt'.lore[j] = "loreHeader"
                  \/ \E i \in 1..Len(lorebookCache[s]) :
                       /\ lorebookCache[s][i].id = prompt'.lore[j]
                       /\ ShouldFire(lorebookCache[s][i], words)]_vars
  /\ [](\A s \in Sessions : \A i \in 1..Len(lorebookCache[s]) :
          lorebookCache[s][i].maxActivations # NotSet
            => lorebookCache[s][i].activationCount <= lorebookCache[s][i].maxActivations)

\* C20 for the entries whose maxActivations is not 0
C20_NonZeroLimit ==
  /\ [][LookupStep =>
          LET s == ireq'.sessionId
              words == prompt'.words
          IN /\ Len(lorebookCache'[s]) = Len(lorebookCache[s])
             /\ \A i \in 1..Len(lorebookCache[s]) :
                  LET e == lorebookCache[s][i]
                  IN e.maxActivations # 0 =>
                       IF ShouldFire(e, words)
                         THEN lorebookCache'[s][i].activationCount = e.activationCount + 1
                         ELSE lorebookCache'[s][i].activationCount = e.activationCount]_vars
  /\ [](\A s \in Sessions : \A i \in 1..Len(lorebookCache[s]) :
          lorebookCache[s][i].maxActivations \notin {NotSet, 0}
            => lorebookCache[s][i].activationCount <= lorebookCache[s][i].maxActivations)


\* the ids of the entries of a list
LoreIds(entries) == { entries[i].id : i \in 1..Len(entries) }

FirstRoundWithInit == ireq.currentRound = 1 /\ ireq.gameInitData.present

\* C22: in a first round with world-init data the Lorebook of the session
\* holds the entries seeded from that data while the prompt of the turn is
\* not yet built, and the lore lookup of that turn runs on the seeded
\* entries: its block is the one the seeded list gives for the turn's
\* prompt, non-empty whenever a seeded entry matches the prompt.
C22_SeededBeforeLookup ==
  /\ [](ipc = "reading_history" /\ FirstRoundWithInit
          => lorebookCache[ireq.sessionId] = initializeLorebook(ireq.gameInitData))
  /\ [][ipc = "reading_history" /\ ipc' = "calling_ai" /\ FirstRoundWithInit
          => LET seeded == initializeLorebook(ireq.gameInitData)
             IN /\ prompt'.words = buildPrompt(ireq)
                /\ prompt'.lore = getTriggeredLoreEntries(seeded, prompt'.words, 2000)
                /\ (\E i \in 1..Len(seeded) : Fires(seeded[i], prompt'.words))
                     => prompt'.lore # <<>>]_vars

\* the first-round prompt of s1 went to the AI with the seeded entity entry
\* in its lore block
C22_Witness ==
  /\ ipc = "calling_ai"
  /\ ireq.sessionId = "s1"
  /\ FirstRoundWithInit
  /\ turnStartLore["s1"] = <<>>
  /\ prompt.lore = <<"loreHeader", "entity_A">>


\* C23: once the session-end clear of a session has returned, whether the
\* deletion in the history store succeeded or failed, the session has no
\* Lorebook entries.
C23_ClearedOnReturn ==
  loreOp.op \in {"clear", "clearFailed"} => lorebookCache[loreOp.sessionId] = <<>>

\* the part that holds: after a clear whose deletion succeeded the session
\* has no Lorebook entries
C23_ClearedWhenDeleted ==
  loreOp.op = "clear" => lorebookCache[loreOp.sessionId] = <<>>


\* the answer's text went to the extractor: a non-empty message.content of
\* a choices body (default provider) or a non-empty content field
ReachedExtractor ==
  /\ response.text # <<>>
  /\ \/ response.shape = "choices" /\ ccfg.provider # "custom"
     \/ response.shape = "content"

\* none of the three patterns finds a group that parses
NoParseableBlock(text) ==
  /\ JsonParse(JsonFenceGroup(text)) = "fail"
  /\ JsonParse(AnyFenceGroup(text)) = "fail"
  /\ JsonParse(BraceGroup(text)) = "fail"

\* C24: when the text of an answer holds no block that parses, callAI
\* returns on that attempt, without an error and without a further request,
\* the raw text as the narrative together with an empty outcomes array and
\* an empty events array.
C24_DegradedSuccess ==
  /\ [][cpc = "attempting" /\ response' # response /\ response' # NoResponse
          => /\ cpc' = "returned"
             /\ cthrown' = NoThrow
             /\ requests' = requests
             /\ attempt' = attempt
             /\ delays' = delays]_vars
  /\ [](cpc = "returned" /\ ReachedExtractor /\ NoParseableBlock(response.text)
          => /\ cresult.narrative = response.text
             /\ {"outcomes", "events"} \subseteq cresult.keys
             /\ cresult.outcomes = <<>>
             /\ cresult.events = <<>>
             /\ cthrown = NoThrow)

\* the second attempt was answered by fenced text that is not JSON, and
\* callAI returned it as the narrative after two requests
C24_Witness ==
  /\ cpc = "returned"
  /\ response = [shape |-> "choices", text |-> <<"F", "B", "F">>]
  /\ ccfg.provider = "default"
  /\ cresult.narrative = <<"F", "B", "F">>
  /\ cresult.outcomes = <<>>
  /\ requests = 2
  /\ retries = 3


\* C25: whatever text the narrative service answers with, the narrative
\* call succeeds and its narrative is that text.
C25_AnyTextIsNarrative ==
  (answered.ok /\ route \in {"narrative", "full-round"} /\ parseResult = NoParse
     /\ rpc \in {"done", "calling_parser"})
    => /\ narrativeResult.success
       /\ narrativeResult.narrative = answered.content

\* the part that holds: a text that is not empty makes the call succeed
\* with the text, stripped of the white space around it, as the narrative
C25_NonEmptyTextSucceeds ==
  (answered.ok /\ answered.content # <<>> /\ route \in {"narrative", "full-round"}
     /\ parseResult = NoParse /\ rpc \in {"done", "calling_parser"})
    => /\ narrativeResult.success
       /\ narrativeResult.error = Undef
       /\ narrativeResult.narrative = Trim(answered.content)

\* C26: the prompt sent on the narrative call never holds the section that
\* asks for a structured (JSON) answer.
C26_NarrativePromptPure ==
  (ipc = "calling_ai" /\ requests > 0) => "schemaRequest" \notin prompt.sections


\* the events array of the block a result was built from
BlockEvents(result) == ResultEvents([block |-> result.block])

\* callAI returned what the extractor made of a block that parsed
BlockReturned ==
  /\ cpc = "returned"
  /\ ReachedExtractor
  /\ ~NoParseableBlock(response.text)

\* outcomes holds one legacy record per panel of the block, in panel order,
\* with the bankruptcy message for a broken entity and the cash summary for
\* the others
LegacyOutcomes ==
  LET panels == BlockPanels(cresult.block)
  IN /\ Len(cresult.outcomes) = Len(panels)
     /\ \A i \in 1..Len(panels) :
          /\ cresult.outcomes[i].playerIndex = i - 1
          /\ cresult.outcomes[i].outcome[1] = panels[i].name
          /\ (cresult.outcomes[i].outcome[2] = "bankrupt") = panels[i].broken
          /\ cresult.outcomes[i].resources.cash = panels[i].cash

\* events holds one legacy {type, description} record per event of the block
LegacyEvents ==
  LET evs == BlockEvents(cresult)
  IN /\ Len(cresult.events) = Len(evs)
     /\ \A i \in 1..Len(evs) :
          /\ DOMAIN cresult.events[i] = {"type", "description"}
          /\ cresult.events[i].type = evs[i].type

\* C27: when a block of the text parses, the returned record holds one
\* legacy outcome record per entity panel in panel order, the legacy
\* {type, description} records mapped from the block's events, and every
\* field of the block.
C27_LegacyMapping ==
  BlockReturned
    => /\ LegacyOutcomes
       /\ LegacyEvents
       /\ BlockKeys(cresult.block) \subseteq cresult.keys

\* the part that holds: the outcomes are mapped from the panels, every field
\* of the block is in the record, and the events field is the block's own
\* events array whenever the block has one
C27_OutcomesAndFields ==
  BlockReturned
    => /\ LegacyOutcomes
       /\ BlockKeys(cresult.block) \subseteq cresult.keys
       /\ ("events" \in BlockKeys(cresult.block) => cresult.events = BlockEvents(cresult))
       /\ ("events" \notin BlockKeys(cresult.block) => cresult.events = <<>>)


NarrativePart(st) == <<st.narrative, st.narrativeLoading, st.narrativeError>>
PanelPart(st) ==
  <<st.parserLoading, st.parserRawText, st.parseSuccess, st.panelData, st.parserError>>

\* a step of a parse request alone: a parse fetch is sent or answered
ParseRequestStep == parseFetches' # parseFetches /\ narrativeFetches' = narrativeFetches
\* a step of a narrative request alone: a narrative fetch is sent or answered
NarrativeRequestStep == narrativeFetches' # narrativeFetches /\ parseFetches' = parseFetches
\* the narrative of a full round is answered and its parse is sent at once
ChainedStep == narrativeFetches' # narrativeFetches /\ parseFetches' # parseFetches

\* C29: a parse request, when it starts, succeeds or fails, leaves narrative,
\* narrativeLoading and narrativeError alone; a narrative request leaves
\* parserLoading, parserRawText, parseSuccess, panelData and parserError
\* alone; when a full round sends its parse in the step its narrative
\* arrives, the panel half changes only as the start of a parse changes it.
C29_HalvesIndependent ==
  /\ [][ParseRequestStep => NarrativePart(state') = NarrativePart(state)]_vars
  /\ [][NarrativeRequestStep => PanelPart(state') = PanelPart(state)]_vars
  /\ [][ChainedStep => PanelPart(state') = PanelPart(parseStarted(state))]_vars

\* the narrative of a full round is shown while its panel is still loading
C29_Witness ==
  /\ state.narrative = "n1"
  /\ ~state.narrativeLoading
  /\ state.parserLoading
  /\ state.panelData = Null
  /\ Cardinality(parseFetches) = 1
  /\ narrativeFetches = {}

\* a parse fetch was answered and the parse it belongs to failed
FailedParseStep ==
  /\ parseFetches' # parseFetches
  /\ parseFetches' \subseteq parseFetches
  /\ (state'.parserError # Null \/ ~state'.parseSuccess)

\* C30: a parse that fails leaves the panelData the state already holds as
\* it was.
C30_FailedParseKeepsPanel ==
  [][FailedParseStep => state'.panelData = state.panelData]_vars

\* the part that holds: a parse whose fetch throws, and the start of a
\* parse, leave panelData as it was
C30_ThrownParseKeepsPanel ==
  /\ [][(FailedParseStep /\ state'.parserError \in {"error.message", "NETWORK_ERROR"})
          => state'.panelData = state.panelData]_vars
  /\ [][(parseFetches' # parseFetches /\ parseFetches \subseteq parseFetches')
          => state'.panelData = state.panelData]_vars

(***************************************************************************)
(* History compression                                                     *)
(***************************************************************************)
\* the messages of a compressed history that are kept rounds, and its
\* synthetic summary messages
KeptOf(messages) == SelectSeq(messages, LAMBDA m : m.role # "system")
SummariesOf(messages) == SelectSeq(messages, LAMBDA m : m.role = "system")
IsSuffixOf(s, t) == \E j \in 0..Len(t) : s = SubSeq(t, j + 1, Len(t))

\* C31: compressing a stored history keeps a contiguous suffix of its rounds:
\* once a round has not fitted in the 0.7 * maxTokens budget no older round is
\* kept.
C31_KeptIsSuffix ==
  compressPass = 1 => IsSuffixOf(KeptOf(compressOut), compressIn)

\* C31, the part that holds: the kept rounds are whole rounds in their original
\* order and within the 0.7 * maxTokens budget, and the synopses of the others
\* are in one system message placed before every kept message.
C31_OrderedBehindOneSummary ==
  compressPass = 1 =>
    /\ IsSubSeq(KeptOf(compressOut), compressIn)
    /\ 10 * SumTokens(KeptOf(compressOut)) <= 7 * compressMax
    /\ Len(SummariesOf(compressOut)) <= 1
    /\ compressOut = SummariesOf(compressOut) \o KeptOf(compressOut)
    /\ Len(KeptOf(compressOut)) < Len(compressIn)
         => /\ Len(SummariesOf(compressOut)) = 1
            /\ compressOut[1].tokens =
                 estimateTokenCount("summaryHeader")
                   + ((Len(compressIn) - Len(KeptOf(compressOut))) \div 2)
                       * estimateTokenCount("synopsis")

\* C32: with summarizeOldRounds on, the messages a retrieval returns never
\* total more estimated tokens than the configured maxTokens.
C32_WithinMaxTokens ==
  (ipc = "idle" /\ ireq.historyConfig.summarizeOldRounds)
    => SumTokens(historyMessages) <= ireq.historyConfig.maxTokens

\* C32, the part that holds: the rounds returned in full stay within maxTokens
\* (within 0.7 * maxTokens when the history was compressed); the summary
\* message is outside any budget.
C32_KeptWithinMaxTokens ==
  (ipc = "idle" /\ ireq.historyConfig.summarizeOldRounds)
    => /\ SumTokens(KeptOf(historyMessages)) <= ireq.historyConfig.maxTokens
       /\ SummariesOf(historyMessages) # <<>>
            => 10 * SumTokens(KeptOf(historyMessages)) <= 7 * ireq.historyConfig.maxTokens

\* C33: compressing an already-compressed history again, with the same
\* maxTokens, returns the same number of messages when that history is under
\* budget, read as: totals at most maxTokens.
C33_SameCountUnderMaxTokens ==
  (compressPass >= 2 /\ SumTokens(compressIn) <= compressMax)
    => Len(compressOut) = Len(compressIn)

\* C33, with the budget compressHistory itself uses: an already-compressed
\* history that totals at most 0.7 * maxTokens is returned as it is.
C33_SameUnderScanBudget ==
  (compressPass >= 2 /\ 10 * SumTokens(compressIn) <= 7 * compressMax)
    => compressOut = compressIn

C33_Witness ==
  /\ compressPass = 2
  /\ SummariesOf(compressIn) # <<>>
  /\ KeptOf(compressIn) # <<>>
  /\ 10 * SumTokens(compressIn) <= 7 * compressMax
  /\ compressOut = compressIn

(***************************************************************************)
(* Lorebook assembly and captures                                          *)
(***************************************************************************)
\* the entries of a list that fire on a prompt holding words, in list order
FiredOf(entries, words) == SelectSeq(entries, LAMBDA e : Fires(e, words))
\* whether sorted holds the elements of es ordered by priority, highest first
IsByPriority(sorted, es) ==
  /\ Len(sorted) = Len(es)
  /\ \A e \in { es[i] : i \in 1..Len(es) } :
       Cardinality({ i \in 1..Len(es) : es[i] = e })
         = Cardinality({ i \in 1..Len(sorted) : sorted[i] = e })
  /\ \A i, j \in 1..Len(sorted) : i < j => sorted[i].priority >= sorted[j].priority
\* the estimate of the header and the first k entries of a list
RECURSIVE EstimateOfFirst(_, _)
EstimateOfFirst(sorted, k) ==
  IF k = 0 THEN estimateTokenCount("loreHeader")
  ELSE sorted[k].tokens + EstimateOfFirst(sorted, k - 1)
\* a step that is getTriggeredLoreEntries called by itself
GetTriggeredStep == loreOp'.op = "getTriggered" /\ turns' = turns + 1

CaptureStep == ipc = "saving_history" /\ ipc' = "returned"
\* the entries a step appended to the session's list
AppendedTo(sessionId) ==
  SubSeq(lorebookCache'[sessionId], Len(lorebookCache[sessionId]) + 1,
         Len(lorebookCache'[sessionId]))
\* the indices (from 0, as forEach counts) of the events that are long-running
\* or not neutral
ImportantIndices(events) ==
  { i \in 0..(Len(events) - 1) :
      events[i + 1].isLongTerm \/ events[i + 1].type \in {"negative", "positive"} }

\* C35: the post-turn capture appends one entry per event that is long-running
\* or not neutral and one per achievement and nothing else, each of category
\* 'event' with an id made of the round and the item's index.
C35_IdsFromRoundAndIndex ==
  [][CaptureStep =>
       LET new == AppendedTo(ireq.sessionId)
       IN /\ Len(new) = Cardinality(ImportantIndices(ResultEvents(iresult)))
                          + Len(ResultAchievements(iresult))
          /\ \A k \in 1..Len(new) :
               /\ new[k].category = "event"
               /\ new[k].id \in
                    { kind \o "_r" \o ToString(ireq.currentRound) \o "_" \o ToString(i) :
                        kind \in {"event", "achievement"},
                        i \in 0..(Len(ResultEvents(iresult))
                                  + Len(ResultAchievements(iresult))) }]_vars

\* C35, as the code does it: the entries the session had stay in place; behind
\* them come one entry per event that is long-running or not neutral, in event
\* order, with id event_r<round>_<index>, priority 30 and category 'event',
\* then one entry per achievement with id achievement_<the achievement's id>,
\* priority 40 and category 'event'; other events add nothing.
C35_CaptureRule ==
  [][CaptureStep =>
       LET s == ireq.sessionId
           new == AppendedTo(s)
           evs == ResultEvents(iresult)
           achs == ResultAchievements(iresult)
           imp == ImportantIndices(evs)
           n == Cardinality(imp)
       IN /\ SubSeq(lorebookCache'[s], 1, Len(lorebookCache[s])) = lorebookCache[s]
          /\ Len(new) = n + Len(achs)
          /\ \A i \in imp :
               LET k == Cardinality({ j \in imp : j < i }) + 1
               IN /\ new[k].id = "event_r" \o ToString(ireq.currentRound)
                                   \o "_" \o ToString(i)
                  /\ new[k].priority = 30
                  /\ new[k].category = "event"
                  /\ new[k].enabled
                  /\ evs[i + 1].keyword \in new[k].keywords
          /\ \A j \in 1..Len(achs) :
               /\ new[n + j].id = "achievement_" \o achs[j].id
               /\ new[n + j].priority = 40
               /\ new[n + j].category = "event"
               /\ new[n + j].enabled]_vars

\* a turn has returned whose result held a negative event, a neutral one and
\* an achievement: the Lorebook ends with the event's entry and the
\* achievement's, and has none for the neutral event
C35_Witness ==
  /\ ipc = "returned"
  /\ iresult.block = "P1"
  /\ LET es == lorebookCache[ireq.sessionId]
     IN /\ Len(es) >= 2
        /\ es[Len(es) - 1].id = "event_r" \o ToString(ireq.currentRound) \o "_0"
        /\ es[Len(es)].id = "achievement_ach_1"
        /\ \A i \in 1..Len(es) :
             es[i].id # "event_r" \o ToString(ireq.currentRound) \o "_1"

\* C36: in one lookup every entry of the session that fires counts exactly
\* one more activation, whether or not the budget lets it into the block, and
\* every entry that does not fire keeps its count; nothing else of an entry
\* changes.
C36_CountedOncePerLookup ==
  [][GetTriggeredStep =>
       LET s == loreOp'.sessionId
           before == lorebookCache[s]
           after == lorebookCache'[s]
       IN /\ Len(after) = Len(before)
          /\ \A i \in 1..Len(before) :
               /\ after[i].activationCount =
                    before[i].activationCount
                      + (IF Fires(before[i], prompt'.words) THEN 1 ELSE 0)
               /\ [after[i] EXCEPT !.activationCount = 0]
                    = [before[i] EXCEPT !.activationCount = 0]]_vars

\* a lookup that takes the entry of highest priority and leaves out the next,
\* which does not fit: both have counted their activation
C36_Witness ==
  /\ loreOp.op = "getTriggered"
  /\ loreOp.maxTokens = 15
  /\ Len(prompt.lore) = 2
  /\ Cardinality({ i \in 1..Len(lorebookCache[loreOp.sessionId]) :
                     lorebookCache[loreOp.sessionId][i].activationCount = 1 }) = 2

\* the step in which performInference is entered
TurnEntryStep == ipc = "idle" /\ ipc' = "reading_history"
\* the entries of a list that a capture added
DynamicOf(entries) == SelectSeq(entries, LAMBDA e : e.category = "event")

\* C37: a turn of round 1 that carries init data replaces the session's whole
\* entry list by the seeded entries, so that no captured entry and no
\* activation count is left, however often it happens; a turn of a later
\* round, or one without init data, leaves the Lorebook as it is on entry.
C37_InitReplaces ==
  [][TurnEntryStep =>
       LET s == ireq'.sessionId
       IN IF ireq'.currentRound = 1 /\ ireq'.gameInitData.present
            THEN /\ lorebookCache'[s] = initializeLorebook(ireq'.gameInitData)
                 /\ DynamicOf(lorebookCache'[s]) = <<>>
                 /\ \A i \in 1..Len(lorebookCache'[s]) :
                      lorebookCache'[s][i].activationCount = 0
                 /\ \A t \in Sessions \ {s} : lorebookCache'[t] = lorebookCache[t]
            ELSE lorebookCache' = lorebookCache]_vars

\* a round-1 turn with init data has been entered for a session whose Lorebook
\* held a captured entry: the list is the seeded one again
C37_Witness ==
  /\ ipc = "reading_history"
  /\ ireq.currentRound = 1
  /\ ireq.gameInitData.present
  /\ DynamicOf(turnStartLore[ireq.sessionId]) # <<>>
  /\ DynamicOf(lorebookCache[ireq.sessionId]) = <<>>
  /\ lorebookCache[ireq.sessionId] # <<>>

\* a later-round turn has been entered for a session that holds captured and
\* seeded entries: the list is as the turn found it
C37_WitnessLater ==
  /\ ipc = "reading_history"
  /\ ireq.currentRound > 1
  /\ DynamicOf(lorebookCache[ireq.sessionId]) # <<>>
  /\ lorebookCache = turnStartLore

\* C38: whatever turns have run (initialisation, captures, a round run
\* again), no two entries of a session's Lorebook have the same id.
C38_UniqueIds ==
  \A s \in Sessions :
    \A i, j \in 1..Len(lorebookCache[s]) :
      i # j => lorebookCache[s][i].id # lorebookCache[s][j].id

\* C38, the part that holds: the entries one turn adds to a session, seeded
\* or captured, have ids different from one another.
C38_UniqueWithinTurn ==
  /\ [][TurnEntryStep =>
          \A i, j \in 1..Len(lorebookCache'[ireq'.sessionId]) :
            (i # j /\ ireq'.currentRound = 1 /\ ireq'.gameInitData.present)
              => lorebookCache'[ireq'.sessionId][i].id
                   # lorebookCache'[ireq'.sessionId][j].id]_vars
  /\ [][CaptureStep =>
          LET new == AppendedTo(ireq.sessionId)
          IN \A i, j \in 1..Len(new) : i # j => new[i].id # new[j].id]_vars

(***************************************************************************)
(* Request bodies                                                          *)
(***************************************************************************)
\* whether a message of a body holds the current prompt
CarriesPrompt(m) == \E i \in 1..Len(m.content) : m.content[i] = PromptText[1]
\* the offsets at which the history handed over stands in a body's messages
HistoryOffsets(messages, history_) ==
  { a \in 0..(Len(messages) - Len(history_)) :
      SubSeq(messages, a + 1, a + Len(history_)) = history_ }
\* a body's messages without the history that stands at offset a
WithoutHistory(messages, history_, a) ==
  SubSeq(messages, 1, a) \o SubSeq(messages, a + Len(history_) + 1, Len(messages))

\* C39: in a body with a messages array, built with or without a template, the
\* history stands in one piece and in the order handed over, behind a system
\* message when the body has one of its own, and before every message that
\* holds the current prompt.
C39_HistoryBeforePrompt ==
  (requestBody.built /\ requestBody.body.hasMessages /\ requestBody.history # <<>>)
    => \E a \in HistoryOffsets(requestBody.body.messages, requestBody.history) :
         LET msgs == requestBody.body.messages
             rest == WithoutHistory(msgs, requestBody.history, a)
         IN /\ FirstSystem(rest) # 0 => FirstSystem(rest) <= a
            /\ \A i \in 1..Len(msgs) :
                 CarriesPrompt(msgs[i]) => i > a + Len(requestBody.history)

\* C39, the part that holds: the history stands in one piece and in order,
\* directly behind the first system message the body has of its own, and at
\* the front when it has none; in the default body that is between the system
\* message and the prompt message.
C39_HistoryBehindFirstSystem ==
  (requestBody.built /\ requestBody.body.hasMessages /\ requestBody.history # <<>>)
    => \E a \in HistoryOffsets(requestBody.body.messages, requestBody.history) :
         LET msgs == requestBody.body.messages
             rest == WithoutHistory(msgs, requestBody.history, a)
         IN /\ a = FirstSystem(rest)
            /\ ~requestBody.template.present
                 => /\ Len(rest) = 2
                    /\ rest[1].role = "system"
                    /\ CarriesPrompt(rest[2])
                    /\ a = 1

(***************************************************************************)
(* The hook's loading flags                                                *)
(***************************************************************************)
\* C40: however the hook's requests overlap, narrativeLoading is true exactly
\* while a narrative request is in flight, and parserLoading exactly while a
\* parse request is.
C40_LoadingTracksRequests ==
  /\ state.narrativeLoading = (narrativeFetches # {})
  /\ state.parserLoading = (parseFetches # {})

\* C40, the part that holds: with no request of a kind in flight its flag is
\* false, and a request that starts sets its flag.
C40_IdleMeansNotLoading ==
  /\ [](narrativeFetches = {} => ~state.narrativeLoading)
  /\ [](parseFetches = {} => ~state.parserLoading)
  /\ [][/\ (narrativeFetches' \ narrativeFetches # {}) => state'.narrativeLoading
        /\ (parseFetches' \ parseFetches # {}) => state'.parserLoading]_vars

====
